---- MODULE Spec2Model ----
(***************************************************************************)
(* A model of the IRC connection core of tiny: the Conn state machine of   *)
(* src/src/conn.rs (link state, ticks, registration, inbound dispatch,     *)
(* outbound calls) and the message splitter of src/src/utils.rs.           *)
(*                                                                         *)
(* Conventions                                                             *)
(*   - Option<T> is a sequence of length 0 (None) or 1 (Some(x)).          *)
(*   - A Rust String / &str is the sequence of its UTF-8 bytes (0..255)    *)
(*     wherever the code looks inside it (splitter, nicks); channel names  *)
(*     and other opaque texts are TLA+ strings.                            *)
(*   - Vec indices are 0-based in the code; the model keeps the 0-based    *)
(*     value and reads element i of a Vec v as v[i + 1].                   *)
(***************************************************************************)
EXTENDS Integers, Sequences, FiniteSets, TLC

VARIABLES
    conn,       \* the fields of the Conn struct (conn.rs 15-66)
    written,    \* what the most recent call wrote to the stream, in order
    evs,        \* the ConnEv values the most recent call pushed, in order
    call,       \* the most recent call of the Conn API: <<name, argument>>
    panicked,   \* TRUE once a call has aborted (a Rust panic)
    idle,       \* tick() calls since the link was last set to PingPong{0}
    cap_ls_seen, \* a CAP LS reply has been dispatched on the current connection
    iter,       \* the SplitIterator struct: [s |-> Option<bytes>, max |-> usize]
    source,     \* the &str handed to split_iterator
    yielded,    \* the slices next() has returned so far, in order
    last_ret,   \* what the most recent next() returned: "start" | "some" | "none" | "panic"
    identity    \* the user and host the server relays the client's lines under

connVars == <<conn, written, evs, call, panicked, idle, cap_ls_seen>>
splitVars == <<iter, source, yielded, last_ret, identity>>
vars == <<conn, written, evs, call, panicked, idle, cap_ls_seen, iter, source, yielded, last_ret,
          identity>>

None == <<>>
Some(x) == <<x>>
IsSome(o) == Len(o) = 1
Unwrap(o) == o[1]

(***************************************************************************)
(* Bounds of the model.                                                    *)
(***************************************************************************)
\* the longest text handed to the splitter, in characters
MaxChars == 4
\* the largest budget handed to the splitter, in bytes
MaxBudget == 6

----------------------------------------------------------------------------
(***************************************************************************)
(* UTF-8 text, as std::str sees it.                                        *)
(***************************************************************************)

\* A byte that continues a code point (0b10xxxxxx).
IsContinuation(b) == b \in 128..191

\* str::is_char_boundary(i): 0 and len are boundaries, an index past the end
\* is not, any other index is one unless the byte there is a continuation.
is_char_boundary(s, i) ==
    IF i = 0 \/ i = Len(s) THEN TRUE
    ELSE IF i < 0 \/ i > Len(s) THEN FALSE
    ELSE ~IsContinuation(s[i + 1])

\* Encoded width of the code point whose lead byte is b.
utf8_width(b) ==
    IF b < 128 THEN 1 ELSE IF b < 224 THEN 2 ELSE IF b < 240 THEN 3 ELSE 4

\* The code point encoded by the w bytes of s that start at 0-based index i.
decode(s, i, w) ==
    CASE w = 1 -> s[i + 1]
      [] w = 2 -> (s[i + 1] - 192) * 64 + (s[i + 2] - 128)
      [] w = 3 -> (s[i + 1] - 224) * 4096 + (s[i + 2] - 128) * 64 + (s[i + 3] - 128)
      [] OTHER -> (s[i + 1] - 240) * 262144 + (s[i + 2] - 128) * 4096
                    + (s[i + 3] - 128) * 64 + (s[i + 4] - 128)

\* char::is_whitespace: the code points with the White_Space property.
is_whitespace(cp) ==
    \/ cp \in 9..13
    \/ cp \in {32, 133, 160, 5760, 8232, 8233, 8239, 8287, 12288}
    \/ cp \in 8192..8202

\* s.match_indices(char::is_whitespace), left to right, from byte index i:
\* the [idx, len] of every whitespace character, in the order of their
\* indices. A character starts at every byte that is not a continuation.
match_indices(s, i) ==
    LET W == {j \in i..(Len(s) - 1) :
                 /\ ~IsContinuation(s[j + 1])
                 /\ is_whitespace(decode(s, j, utf8_width(s[j + 1])))}
        nth(k) == CHOOSE j \in W : Cardinality({x \in W : x <= j}) = k
    IN  [k \in 1..Cardinality(W) |-> [idx |-> nth(k), len |-> utf8_width(s[nth(k) + 1])]]

Reverse(q) == [k \in 1..Len(q) |-> q[Len(q) + 1 - k]]

\* s.rmatch_indices(char::is_whitespace): the same matches, right to left.
rmatch_indices(s) == Reverse(match_indices(s, 0))

----------------------------------------------------------------------------
(***************************************************************************)
(* utils.rs: SplitIterator.                                                *)
(***************************************************************************)

\* split_iterator(s, max)
split_iterator(s, max) == [s |-> Some(s), max |-> max]

\* The loop over rmatch_indices (utils.rs 58-68): the first whitespace from the
\* right whose start index is <= max decides the split and ends the loop; the
\* split is after it when it fits too, else at its start. 0 when there is none.
RECURSIVE ws_split_from(_, _, _)
ws_split_from(ws, k, max) ==
    IF k > Len(ws) THEN 0
    ELSE IF ws[k].idx <= max
         THEN IF ws[k].idx + ws[k].len <= max
              THEN ws[k].idx + ws[k].len
              ELSE ws[k].idx
         ELSE ws_split_from(ws, k + 1, max)

\* A version of the loop that always keeps the whitespace in the slice.
ws_split_keep(s, max) ==
    LET ws == rmatch_indices(s)
        hit == {k \in 1..Len(ws) : ws[k].idx <= max}
    IN  IF hit = {} THEN 0
        ELSE LET k == CHOOSE k \in hit : \A j \in hit : k <= j
             IN  ws[k].idx + ws[k].len

ws_split(s, max) == ws_split_from(rmatch_indices(s), 1, max)

\* The loop `for i in 0..4` (utils.rs 72-77): the first of max, max-1, max-2,
\* max-3 that is a char boundary. `max - i` below zero is a usize underflow: a
\* panic with overflow checks, and without them an index past the end, which is
\* no boundary, so the loop runs out; both end in the abort of line 81, which 0
\* stands for here.
RECURSIVE char_split(_, _, _)
char_split(s, max, i) ==
    IF i = 4 THEN 0
    ELSE IF max - i < 0 THEN 0
    ELSE IF is_char_boundary(s, max - i) THEN max - i
    ELSE char_split(s, max, i + 1)

\* A version of the search whose whitespace loop has no `break`: the last
\* match visited, the leftmost whitespace, decides.
find_split_no_break(s, max) ==
    LET ws == match_indices(s, 0)
        hit == {k \in 1..Len(ws) : ws[k].idx <= max}
        k == CHOOSE k \in hit : \A j \in hit : k <= j
        w == IF hit = {} THEN 0
             ELSE IF ws[k].idx + ws[k].len <= max THEN ws[k].idx + ws[k].len
             ELSE ws[k].idx
    IN  IF w = 0 THEN char_split(s, max, 0) ELSE w

\* The value of `split` at line 80.
find_split(s, max) ==
    LET w == ws_split(s, max)
    IN  IF w = 0 THEN char_split(s, max, 0) ELSE w

\* A version of lines 83-85 that drops the byte at the split.
take_split_skip(s, split) ==
    [ret |-> "some", item |-> SubSeq(s, 1, split),
     s |-> Some(SubSeq(s, split + 2, Len(s)))]

\* Lines 83-85: yield &s[0..split], keep &s[split..]. Slicing a str off a char
\* boundary panics.
take_split(s, split) ==
    IF ~is_char_boundary(s, split)
    THEN [ret |-> "panic", item |-> <<>>, s |-> Some(s)]
    ELSE [ret |-> "some", item |-> SubSeq(s, 1, split),
          s |-> Some(SubSeq(s, split + 1, Len(s)))]

\* SplitIterator::next: what it returns (ret, item) and the new self.s.
SplitIterator_next(it) ==
    IF it.max = 0 THEN [ret |-> "none", item |-> <<>>, s |-> it.s]
    ELSE IF it.s = None THEN [ret |-> "none", item |-> <<>>, s |-> None]
    ELSE LET s == Unwrap(it.s)
         IN  IF Len(s) <= it.max
             THEN [ret |-> "some", item |-> s, s |-> None]
             ELSE LET split == find_split(s, it.max)
                  IN  IF split = 0
                      THEN [ret |-> "panic", item |-> <<>>, s |-> it.s]
                      ELSE take_split(s, split)

(***************************************************************************)
(* The texts the splitter is tried on: every string of at most MaxChars    *)
(* characters over an alphabet with one character of each kind the code    *)
(* distinguishes: a letter, a space, a 2-byte letter, a 3-byte letter, a   *)
(* 3-byte whitespace (U+3000) and a 4-byte character.                      *)
(***************************************************************************)
Alphabet ==
    { <<97>>, <<32>>, <<195, 169>>, <<226, 130, 172>>, <<227, 128, 128>>,
      <<240, 159, 152, 128>> }

\* The texts of the tests of utils.rs: "yada yada yada" and "longwordislong".
T_yada == <<121, 97, 100, 97>>
T_space == <<32>>
T_yada_yada_yada == T_yada \o T_space \o T_yada \o T_space \o T_yada
T_longwordislong == <<108, 111, 110, 103, 119, 111, 114, 100, 105, 115, 108, 111, 110, 103>>
TestTexts == {T_yada_yada_yada, T_longwordislong}

RECURSIVE Texts(_)
Texts(n) ==
    IF n = 0 THEN {<<>>}
    ELSE LET T == Texts(n - 1) IN T \cup {t \o c : t \in T, c \in Alphabet}

----------------------------------------------------------------------------
(***************************************************************************)
(* conn.rs: the Conn state machine.                                        *)
(*                                                                         *)
(* Texts of the connection (nicks, channels, parameters) are sequences of  *)
(* one-character strings, one per byte. A handler works on a context       *)
(*   [conn, out, evs, panicked]                                            *)
(* holding the Conn fields, what the call has written to the stream and    *)
(* pushed to `evs` so far, and whether it has panicked; a panicked context *)
(* is passed through unchanged by every later step of the call.            *)
(***************************************************************************)

\* conn.rs 71, 74, 76
PING_TICKS == 60
PONG_TICKS == 60
RECONNECT_TICKS == 30
\* ticks_passed is a u8
U8_MAX == 255

\* ConnStatus (conn.rs 78-95). The two live variants own the stream.
PingPong(t) == [kind |-> "PingPong", ticks_passed |-> t]
WaitPong(t) == [kind |-> "WaitPong", ticks_passed |-> t]
Disconnected(t) == [kind |-> "Disconnected", ticks_passed |-> t]

\* ConnStatus::get_stream / get_stream_mut return Some for the live variants.
get_stream(status) == status.kind # "Disconnected"

\* ConnEv (conn.rs 130-143)
EvConnected == <<"Connected">>
EvDisconnected == <<"Disconnected">>
EvWantReconnect == <<"WantReconnect">>
EvErr(e) == <<"Err", e>>
EvMsg(m) == <<"Msg", m>>
EvNickChange(n) == <<"NickChange", n>>

\* The writers of the wire codec: each appends one line to the stream.
wire_pass(p) == <<"PASS", p>>
wire_nick(n) == <<"NICK", n>>
wire_user(hostname, realname) == <<"USER", hostname, realname>>
wire_ping(server) == <<"PING", server>>
wire_pong(server) == <<"PONG", server>>
wire_privmsg(target, msg) == <<"PRIVMSG", target, msg>>
wire_ctcp_action(target, msg) == <<"PRIVMSG", target, <<"\\x01ACTION">> \o msg \o <<"\\x01">> >>
wire_join(chans) == <<"JOIN", chans>>
wire_part(chan) == <<"PART", chan>>
wire_away(msg) == <<"AWAY", msg>>
wire_cap_ls == <<"CAP LS">>
wire_cap_req(caps) == <<"CAP REQ", caps>>
wire_cap_end == <<"CAP END">>
wire_authenticate(param) == <<"AUTHENTICATE", param>>
wire_raw(msg) == <<"RAW", msg>>

\* A write that does not look for the stream.
send_unchecked(c, m) ==
    IF c.panicked THEN c ELSE [c EXCEPT !.out = Append(@, m)]

\* `self.status.get_stream_mut().map(|stream| write(stream, m))`: the line is
\* written when there is a stream and dropped when there is none.
send(c, m) ==
    IF c.panicked \/ ~get_stream(c.conn.status) THEN c
    ELSE [c EXCEPT !.out = Append(@, m)]

push_ev(c, e) == IF c.panicked THEN c ELSE [c EXCEPT !.evs = Append(@, e)]

panic(c) == [c EXCEPT !.panicked = TRUE]

\* The context a call starts with.
Ctx(cn) == [conn |-> cn, out |-> <<>>, evs |-> <<>>, panicked |-> FALSE]

\* introduce (conn.rs 145-157): the lines it writes.
introduce(pass, hostname, realname, nick) ==
    (IF IsSome(pass) THEN <<wire_pass(Unwrap(pass))>> ELSE <<>>)
        \o <<wire_nick(nick), wire_user(hostname, realname)>>

\* Conn::new (conn.rs 160-202) for a `server` whose stream could be opened
\* (a failed Stream::new returns Err and there is no Conn). `server.nicks[0]`
\* is read on the plain path only.
new(server) ==
    LET cn == [ serv_addr |-> server.addr,
                serv_port |-> server.port,
                tls |-> server.tls,
                hostname |-> server.hostname,
                realname |-> server.realname,
                pass |-> server.pass,
                nicks |-> server.nicks,
                current_nick_idx |-> 0,
                auto_join |-> server.join,
                nickserv_ident |-> server.nickserv_ident,
                away_status |-> None,
                servername |-> None,
                usermask |-> None,
                status |-> PingPong(0),
                in_buf |-> <<>>,
                sasl_auth |-> server.sasl_auth,
                nick_accepted |-> FALSE ]
    IN  IF IsSome(server.sasl_auth)
        THEN [Ctx(cn) EXCEPT !.out = <<wire_cap_ls>>]
        ELSE IF server.nicks = <<>> THEN panic(Ctx(cn))
        ELSE [Ctx(cn) EXCEPT !.out = introduce(server.pass, server.hostname,
                                               server.realname, server.nicks[1])]

\* Is the index a valid index of nicks? (`&self.nicks[i]` panics when not.)
nick_in_range(cn) == cn.current_nick_idx + 1 \in 1..Len(cn.nicks)

\* Conn::get_nick (conn.rs 250-252), where the index is in range.
get_nick(cn) == cn.nicks[cn.current_nick_idx + 1]

\* A reconnect that introduces itself at once, SASL or not.
reconnect_always_introduce(c0, new_serv, opened) ==
    LET c1 == [c0 EXCEPT !.conn.status = Disconnected(0),
                         !.conn.nick_accepted = FALSE]
    IN  IF ~opened THEN c1
        ELSE IF ~nick_in_range(c1.conn) THEN panic(c1)
        ELSE [c1 EXCEPT
                !.out = introduce(c1.conn.pass, c1.conn.hostname,
                                  c1.conn.realname, get_nick(c1.conn)),
                !.conn.status = PingPong(0),
                !.conn.current_nick_idx = 0]

\* Conn::reconnect (conn.rs 204-240). `opened` is whether Stream::new
\* succeeded. The old stream is dropped first and nick_accepted cleared; on
\* the plain path the introduction is written with get_nick(), read before
\* current_nick_idx is reset.
reconnect(c0, new_serv, opened) ==
    LET c1 == [c0 EXCEPT !.conn.status = Disconnected(0),
                         !.conn.nick_accepted = FALSE]
        c2 == IF IsSome(new_serv)
              THEN [c1 EXCEPT !.conn.serv_addr = Unwrap(new_serv)[1],
                              !.conn.serv_port = Unwrap(new_serv)[2]]
              ELSE c1
    IN  IF ~opened THEN c2
        ELSE IF ~IsSome(c2.conn.sasl_auth) /\ ~nick_in_range(c2.conn) THEN panic(c2)
        ELSE [c2 EXCEPT
                !.out = IF IsSome(c2.conn.sasl_auth) THEN <<wire_cap_ls>>
                        ELSE introduce(c2.conn.pass, c2.conn.hostname,
                                       c2.conn.realname, get_nick(c2.conn)),
                !.conn.status = PingPong(0),
                !.conn.current_nick_idx = 0]

\* Conn::set_nick (conn.rs 260-267)
position(q, x) ==
    IF \E k \in 1..Len(q) : q[k] = x
    THEN Some((CHOOSE k \in 1..Len(q) : q[k] = x /\ \A j \in 1..(k - 1) : q[j] # x) - 1)
    ELSE None

set_nick(c, nick) ==
    LET p == position(c.conn.nicks, nick)
    IN  IF IsSome(p)
        THEN [c EXCEPT !.conn.current_nick_idx = Unwrap(p)]
        ELSE [c EXCEPT !.conn.nicks = Append(@, nick),
                       !.conn.current_nick_idx = Len(c.conn.nicks)]

\* A next_nick that forgets to grow the list at its end.
next_nick_no_push(c) ==
    [c EXCEPT !.conn.current_nick_idx = @ + 1]

\* A next_nick that announces the nick it moves to inside the list.
next_nick_send_next(c) ==
    IF c.conn.current_nick_idx + 1 = Len(c.conn.nicks)
    THEN IF c.conn.nicks = <<>> THEN panic(c)
         ELSE LET new_nick == Append(c.conn.nicks[Len(c.conn.nicks)], "_")
                  c1 == send(c, wire_nick(new_nick))
              IN  [c1 EXCEPT !.conn.nicks = Append(@, new_nick),
                             !.conn.current_nick_idx = @ + 1]
    ELSE IF c.conn.current_nick_idx + 1 < Len(c.conn.nicks)
    THEN [send(c, wire_nick(c.conn.nicks[c.conn.current_nick_idx + 2]))
             EXCEPT !.conn.current_nick_idx = @ + 1]
    ELSE [c EXCEPT !.conn.current_nick_idx = @ + 1]

\* Conn::next_nick (conn.rs 269-279). `nicks.last().unwrap()` panics on an
\* empty list.
next_nick(c) ==
    IF c.conn.current_nick_idx + 1 = Len(c.conn.nicks)
    THEN IF c.conn.nicks = <<>> THEN panic(c)
         ELSE LET new_nick == Append(c.conn.nicks[Len(c.conn.nicks)], "_")
                  c1 == send(c, wire_nick(new_nick))
              IN  [c1 EXCEPT !.conn.nicks = Append(@, new_nick),
                             !.conn.current_nick_idx = @ + 1]
    ELSE [c EXCEPT !.conn.current_nick_idx = @ + 1]

\* An enter_disconnect_state that keeps nick_accepted.
enter_disconnect_state_keep(c) ==
    [c EXCEPT !.conn.status = Disconnected(0)]

\* Conn::enter_disconnect_state (conn.rs 300-303)
enter_disconnect_state(c) ==
    [c EXCEPT !.conn.status = Disconnected(0), !.conn.nick_accepted = FALSE]

----------------------------------------------------------------------------
(***************************************************************************)
(* Tick handling.                                                          *)
(***************************************************************************)

\* `ticks_passed + 1` on a u8: past 255 the build decides, a panic with
\* overflow checks and a wrap to 0 without.
u8_add_one(x) ==
    IF x < U8_MAX THEN {[value |-> x + 1, overflow |-> FALSE]}
    ELSE {[value |-> 0, overflow |-> FALSE], [value |-> 0, overflow |-> TRUE]}

\* A tick that compares the old counter, not the new one, with PING_TICKS.
tick_with_old_counter(c, sum) ==
    LET st == c.conn.status
        ticks == sum.value
    IN  IF sum.overflow
        THEN panic([c EXCEPT !.conn.status = Disconnected(0)])
        ELSE CASE st.kind = "PingPong" ->
                    IF st.ticks_passed = PING_TICKS
                    THEN [c EXCEPT
                            !.out = IF IsSome(c.conn.servername)
                                    THEN Append(@, wire_ping(Unwrap(c.conn.servername)))
                                    ELSE @,
                            !.conn.status = WaitPong(0)]
                    ELSE [c EXCEPT !.conn.status = PingPong(ticks)]
               [] st.kind = "WaitPong" ->
                    IF ticks = PONG_TICKS
                    THEN [c EXCEPT !.evs = Append(@, EvDisconnected),
                                   !.conn.nick_accepted = FALSE,
                                   !.conn.status = Disconnected(0)]
                    ELSE [c EXCEPT !.conn.status = WaitPong(ticks)]
               [] OTHER ->
                    IF ticks = RECONNECT_TICKS
                    THEN [c EXCEPT !.evs = Append(@, EvWantReconnect),
                                   !.conn.current_nick_idx = 0,
                                   !.conn.status = Disconnected(ticks)]
                    ELSE [c EXCEPT !.conn.status = Disconnected(ticks)]

\* A tick that asks for a reconnect on every tick from RECONNECT_TICKS on.
tick_with_repeated_want(c, sum) ==
    LET st == c.conn.status
        ticks == sum.value
    IN  IF sum.overflow
        THEN panic([c EXCEPT !.conn.status = Disconnected(0)])
        ELSE CASE st.kind = "PingPong" ->
                    IF ticks = PING_TICKS
                    THEN [c EXCEPT
                            !.out = IF IsSome(c.conn.servername)
                                    THEN Append(@, wire_ping(Unwrap(c.conn.servername)))
                                    ELSE @,
                            !.conn.status = WaitPong(0)]
                    ELSE [c EXCEPT !.conn.status = PingPong(ticks)]
               [] st.kind = "WaitPong" ->
                    IF ticks = PONG_TICKS
                    THEN [c EXCEPT !.evs = Append(@, EvDisconnected),
                                   !.conn.nick_accepted = FALSE,
                                   !.conn.status = Disconnected(0)]
                    ELSE [c EXCEPT !.conn.status = WaitPong(ticks)]
               [] OTHER ->
                    IF ticks >= RECONNECT_TICKS
                    THEN [c EXCEPT !.evs = Append(@, EvWantReconnect),
                                   !.conn.current_nick_idx = 0,
                                   !.conn.status = Disconnected(ticks)]
                    ELSE [c EXCEPT !.conn.status = Disconnected(ticks)]

\* A tick that keeps counting in PingPong when it has no servername to PING.
tick_with_no_wait(c, sum) ==
    LET st == c.conn.status
        ticks == sum.value
    IN  IF sum.overflow
        THEN panic([c EXCEPT !.conn.status = Disconnected(0)])
        ELSE CASE st.kind = "PingPong" ->
                    IF ticks = PING_TICKS /\ IsSome(c.conn.servername)
                    THEN [c EXCEPT
                            !.out = Append(@, wire_ping(Unwrap(c.conn.servername))),
                            !.conn.status = WaitPong(0)]
                    ELSE [c EXCEPT !.conn.status = PingPong(ticks)]
               [] st.kind = "WaitPong" ->
                    IF ticks = PONG_TICKS
                    THEN [c EXCEPT !.evs = Append(@, EvDisconnected),
                                   !.conn.nick_accepted = FALSE,
                                   !.conn.status = Disconnected(0)]
                    ELSE [c EXCEPT !.conn.status = WaitPong(ticks)]
               [] OTHER ->
                    IF ticks = RECONNECT_TICKS
                    THEN [c EXCEPT !.evs = Append(@, EvWantReconnect),
                                   !.conn.current_nick_idx = 0,
                                   !.conn.status = Disconnected(ticks)]
                    ELSE [c EXCEPT !.conn.status = Disconnected(ticks)]

\* Conn::tick (conn.rs 308-371), given the outcome `sum` of ticks_passed + 1.
\* update_status! parks Disconnected{0} in self.status while the match runs,
\* which is what a panic in the addition leaves behind.
tick_with(c, sum) ==
    LET st == c.conn.status
        ticks == sum.value
    IN  IF sum.overflow
        THEN panic([c EXCEPT !.conn.status = Disconnected(0)])
        ELSE CASE st.kind = "PingPong" ->
                    IF ticks = PING_TICKS
                    THEN [c EXCEPT
                            !.out = IF IsSome(c.conn.servername)
                                    THEN Append(@, wire_ping(Unwrap(c.conn.servername)))
                                    ELSE @,
                            !.conn.status = WaitPong(0)]
                    ELSE [c EXCEPT !.conn.status = PingPong(ticks)]
               [] st.kind = "WaitPong" ->
                    IF ticks = PONG_TICKS
                    THEN [c EXCEPT !.evs = Append(@, EvDisconnected),
                                   !.conn.nick_accepted = FALSE,
                                   !.conn.status = Disconnected(0)]
                    ELSE [c EXCEPT !.conn.status = WaitPong(ticks)]
               [] OTHER ->
                    IF ticks = RECONNECT_TICKS
                    THEN [c EXCEPT !.evs = Append(@, EvWantReconnect),
                                   !.conn.current_nick_idx = 0,
                                   !.conn.status = Disconnected(ticks)]
                    ELSE [c EXCEPT !.conn.status = Disconnected(ticks)]

\* The contexts one tick() can end in.
tick(c) == {tick_with(c, t) : t \in u8_add_one(c.conn.status.ticks_passed)}

\* A reset_ticks that leaves WaitPong waiting for its PONG.
reset_ticks_keep_waiting(c) ==
    IF c.conn.status.kind = "PingPong"
    THEN [c EXCEPT !.conn.status = PingPong(0)]
    ELSE c

\* Conn::reset_ticks (conn.rs 373-394)
reset_ticks(c) ==
    IF c.conn.status.kind \in {"PingPong", "WaitPong"}
    THEN [c EXCEPT !.conn.status = PingPong(0)]
    ELSE c

----------------------------------------------------------------------------
(***************************************************************************)
(* Sending messages (conn.rs 396-489).                                     *)
(***************************************************************************)

send_nick(c, nick) == send(c, wire_nick(nick))

\* Conn::nickserv_ident (conn.rs 408-415)
T_NickServ == <<"N", "i", "c", "k", "S", "e", "r", "v">>
T_identify == <<"i", "d", "e", "n", "t", "i", "f", "y", " ">>
nickserv_ident(c) ==
    IF IsSome(c.conn.nickserv_ident)
    THEN send(c, wire_privmsg(T_NickServ, T_identify \o Unwrap(c.conn.nickserv_ident)))
    ELSE c

\* Conn::split_privmsg (conn.rs 419-446): the iterator it returns, or a panic
\* when `assert!(max > 0)` fails.
split_privmsg(cn, extra_len, msg) ==
    LET max0 == 512 - 3 - 13 - Len(get_nick(cn)) - extra_len
        max == IF IsSome(cn.usermask)
               THEN max0 - Len(Unwrap(cn.usermask))
               ELSE max0 - 9 - 64
    IN  IF max > 0
        THEN [panic |-> FALSE, iter |-> split_iterator(msg, max)]
        ELSE [panic |-> TRUE, iter |-> [s |-> None, max |-> 0]]

privmsg(c, target, msg) == send(c, wire_privmsg(target, msg))

ctcp_action(c, target, msg) == send(c, wire_ctcp_action(target, msg))

join(c, chans) == send(c, wire_join(chans))

\* Vec::drain_filter(pred), dropped at once: dropping the iterator runs it to
\* its end, so every element that satisfies pred is removed and the others
\* keep their order.
RECURSIVE drain_filter(_, _)
drain_filter(q, x) ==
    IF q = <<>> THEN <<>>
    ELSE IF Head(q) = x THEN drain_filter(Tail(q), x)
    ELSE <<Head(q)>> \o drain_filter(Tail(q), x)

\* A removal of the first occurrence only.
RECURSIVE remove_first(_, _)
remove_first(q, x) ==
    IF q = <<>> THEN <<>>
    ELSE IF Head(q) = x THEN Tail(q)
    ELSE <<Head(q)>> \o remove_first(Tail(q), x)

\* A part that removes one occurrence of the channel.
part_remove_first(c, chan) ==
    [send(c, wire_part(chan)) EXCEPT !.conn.auto_join = remove_first(@, chan)]

\* Conn::part (conn.rs 471-476)
part(c, chan) ==
    [send(c, wire_part(chan)) EXCEPT !.conn.auto_join = drain_filter(@, chan)]

\* Conn::away (conn.rs 478-483); msg is an Option
away(c, msg) ==
    send([c EXCEPT !.conn.away_status = msg], wire_away(msg))

raw_msg(c, msg) == send(c, wire_raw(msg))

\* Conn::write_ready (conn.rs 494-505). `result` is what stream.write_ready()
\* returned: "ok", "would_block" or "error".
write_ready(c, result) ==
    IF get_stream(c.conn.status) /\ result = "error"
    THEN push_ev(c, EvErr(result))
    ELSE c

----------------------------------------------------------------------------
(***************************************************************************)
(* Receiving messages (conn.rs 507-780).                                   *)
(*                                                                         *)
(* A parsed Msg is [pfx, cmd, num, sub, params, arg]: pfx is None or       *)
(* Some([nick, user]) (Pfx::User), cmd names the Cmd variant, and the      *)
(* other fields carry what the variant holds (unused ones are empty).      *)
(* On the wire a line is two tokens, its first bytes and its last bytes    *)
(* up to CRLF: a read may end between the two.                             *)
(***************************************************************************)

Msg(pfx, cmd, num, sub, params, arg) ==
    [pfx |-> pfx, cmd |-> cmd, num |-> num, sub |-> sub, params |-> params, arg |-> arg]
Reply(num, params) == Msg(None, "Reply", num, <<>>, params, <<>>)
User(nick, user) == Some([nick |-> nick, user |-> user])

\* The bytes of one line as they arrive.
LineHead(m) == [line |-> m, part |-> 1]
LineTail(m) == [line |-> m, part |-> 2]
Encode(m) == <<LineHead(m), LineTail(m)>>

\* Msg::read(&mut buf): a complete line at the front of the buffer is taken
\* out and returned parsed; otherwise the buffer is left alone.
Msg_read(buf) ==
    IF Len(buf) >= 2 /\ buf[1].part = 1 /\ buf[2] = LineTail(buf[1].line)
    THEN [msg |-> Some(buf[1].line), buf |-> SubSeq(buf, 3, Len(buf))]
    ELSE [msg |-> None, buf |-> buf]

\* wire::find_byte(bytes, b): the 0-based index of the first b.
find_byte(s, b) == position(s, b)

T_sasl == <<"s", "a", "s", "l">>
T_PLAIN == <<"P", "L", "A", "I", "N">>
T_ACK == <<"A", "C", "K">>
T_NAK == <<"N", "A", "K">>
T_LS == <<"L", "S">>
T_plus == <<"+">>

contains(q, x) == \E k \in 1..Len(q) : q[k] = x

\* base64::encode, kept symbolic: the encoding of a byte string is a value
\* that is neither the string nor the encoding of another string.
base64_encode(bytes) == <<"base64">> \o bytes

NUL == "\\x00"

\* A plain_sasl_authenticate that leaves the authorization identity out.
plain_sasl_authenticate_no_authzid(c) ==
    IF IsSome(c.conn.sasl_auth)
    THEN LET auth == Unwrap(c.conn.sasl_auth)
             msg == auth.username \o <<NUL>> \o auth.password
         IN  send(c, wire_authenticate(base64_encode(msg)))
    ELSE c

\* Conn::plain_sasl_authenticate (conn.rs 283-292)
plain_sasl_authenticate(c) ==
    IF IsSome(c.conn.sasl_auth)
    THEN LET auth == Unwrap(c.conn.sasl_auth)
             msg == auth.username \o <<NUL>> \o auth.username \o <<NUL>> \o auth.password
         IN  send(c, wire_authenticate(base64_encode(msg)))
    ELSE c

\* Conn::end_capability_negotiation (conn.rs 294-298)
end_capability_negotiation(c) == send(c, wire_cap_end)

\* str::trim: whitespace removed at both ends.
IsSpace(ch) == ch \in {" ", "\t", "\n", "\r"}
RECURSIVE trim_start(_)
trim_start(s) == IF s # <<>> /\ IsSpace(Head(s)) THEN trim_start(Tail(s)) ELSE s
RECURSIVE trim_end(_)
trim_end(s) ==
    IF s # <<>> /\ IsSpace(s[Len(s)]) THEN trim_end(SubSeq(s, 1, Len(s) - 1)) ELSE s
trim(s) == trim_end(trim_start(s))

\* parse_servername (conn.rs 774-780): None, Some(name), or a panic when the
\* text is shorter than 13 bytes (`&msg[13..]`).
parse_servername(params) ==
    IF params = <<>> THEN [panic |-> FALSE, name |-> None]
    ELSE LET msg == IF Len(params) >= 2 THEN params[2] ELSE params[1]
         IN  IF Len(msg) < 13 THEN [panic |-> TRUE, name |-> None]
             ELSE LET slice1 == SubSeq(msg, 14, Len(msg))
                      bracket == find_byte(slice1, "[")
                      ends == IF IsSome(bracket) THEN bracket ELSE find_byte(slice1, ",")
                  IN  IF IsSome(ends)
                      THEN [panic |-> FALSE, name |-> Some(SubSeq(slice1, 1, Unwrap(ends)))]
                      ELSE [panic |-> FALSE, name |-> None]

(***************************************************************************)
(* Conn::handle_msg (conn.rs 535-770), one operator per `if let` of the    *)
(* function, applied in the order of the source.                           *)
(***************************************************************************)

\* CAP (conn.rs 536-568)
on_cap(c, msg) ==
    IF c.panicked \/ msg.cmd # "CAP" THEN c
    ELSE CASE msg.sub = T_ACK ->
                IF contains(msg.params, T_sasl)
                THEN send(c, wire_authenticate(T_PLAIN))
                ELSE c
           [] msg.sub = T_NAK -> end_capability_negotiation(c)
           [] msg.sub = T_LS ->
                IF ~get_stream(c.conn.status) THEN c
                ELSE IF c.conn.nicks = <<>> THEN panic(c)
                ELSE LET c1 == [c EXCEPT !.out = @ \o introduce(None, c.conn.hostname,
                                                     c.conn.realname, c.conn.nicks[1])]
                     IN  IF contains(msg.params, T_sasl)
                         THEN [c1 EXCEPT !.out = Append(@, wire_cap_req(<<T_sasl>>))]
                         ELSE c1
           [] OTHER -> c

\* AUTHENTICATE (conn.rs 570-580)
on_authenticate(c, msg) ==
    IF c.panicked \/ msg.cmd # "AUTHENTICATE" THEN c
    ELSE IF msg.arg = T_plus THEN plain_sasl_authenticate(c) ELSE c

\* 903 / 904 (conn.rs 582-588)
on_sasl_reply(c, msg) ==
    IF c.panicked \/ msg.cmd # "Reply" \/ msg.num \notin {903, 904} THEN c
    ELSE end_capability_negotiation(c)

\* PING (conn.rs 590-598)
on_ping(c, msg) ==
    IF c.panicked \/ msg.cmd # "PING" THEN c
    ELSE send(c, wire_pong(msg.arg))

\* JOIN from a user prefix (conn.rs 600-609)
on_join(c, msg) ==
    IF c.panicked \/ msg.cmd # "JOIN" \/ ~IsSome(msg.pfx) THEN c
    ELSE IF ~nick_in_range(c.conn) THEN panic(c)
    ELSE IF Unwrap(msg.pfx).nick = get_nick(c.conn)
         THEN [c EXCEPT !.conn.usermask =
                            Some(Unwrap(msg.pfx).nick \o <<"!">> \o Unwrap(msg.pfx).user)]
         ELSE c

\* 396 (conn.rs 611-625)
on_396(c, msg) ==
    IF c.panicked \/ msg.cmd # "Reply" \/ msg.num # 396 THEN c
    ELSE IF Len(msg.params) # 3 THEN c
    ELSE IF ~nick_in_range(c.conn) THEN panic(c)
    ELSE [c EXCEPT !.conn.usermask =
                       Some(get_nick(c.conn) \o <<"!", "~">> \o c.conn.hostname
                                \o <<"@">> \o msg.params[2])]

\* 302 (conn.rs 627-660): `&params[1]` panics when there are fewer than two
\* parameters; the mask is taken from index i, the '=' or the sign after it.
on_302(c, msg) ==
    IF c.panicked \/ msg.cmd # "Reply" \/ msg.num # 302 THEN c
    ELSE IF Len(msg.params) < 2 THEN panic(c)
    ELSE LET param == msg.params[2]
             eq == find_byte(param, "=")
         IN  IF ~IsSome(eq) THEN c
             ELSE LET i0 == Unwrap(eq)
                      signed == i0 + 2 <= Len(param) /\ param[i0 + 2] \in {"+", "-"}
                      i == IF signed THEN i0 + 1 ELSE i0
                  IN  [c EXCEPT !.conn.usermask =
                                    Some(trim(SubSeq(param, i + 1, Len(param))))]

\* A 001 handler that reports the nick before the connection.
on_001_nick_first(c, msg) ==
    IF c.panicked \/ msg.cmd # "Reply" \/ msg.num # 1 THEN c
    ELSE IF ~nick_in_range(c.conn) THEN panic(c)
    ELSE LET c1 == push_ev(c, EvNickChange(get_nick(c.conn)))
             c2 == push_ev(c1, EvConnected)
             c3 == nickserv_ident(c2)
         IN  [c3 EXCEPT !.conn.nick_accepted = TRUE]

\* 001 (conn.rs 662-672)
on_001(c, msg) ==
    IF c.panicked \/ msg.cmd # "Reply" \/ msg.num # 1 THEN c
    ELSE IF ~nick_in_range(c.conn) THEN panic(push_ev(c, EvConnected))
    ELSE LET c1 == push_ev(c, EvConnected)
             c2 == push_ev(c1, EvNickChange(get_nick(c.conn)))
             c3 == nickserv_ident(c2)
         IN  [c3 EXCEPT !.conn.nick_accepted = TRUE]

\* 002 (conn.rs 674-698)
on_002(c, msg) ==
    IF c.panicked \/ msg.cmd # "Reply" \/ msg.num # 2 THEN c
    ELSE LET r == parse_servername(msg.params)
         IN  IF r.panic THEN panic(c)
             ELSE IF IsSome(r.name) THEN [c EXCEPT !.conn.servername = r.name]
             ELSE c

\* 433 (conn.rs 700-709)
on_433(c, msg) ==
    IF c.panicked \/ msg.cmd # "Reply" \/ msg.num # 433 THEN c
    ELSE IF ~c.conn.nick_accepted THEN next_nick(c) ELSE c

\* A NICK handler that takes the nick change for the server's acceptance.
on_nick_accepts(c, msg) ==
    IF c.panicked \/ msg.cmd # "NICK" \/ ~IsSome(msg.pfx) THEN c
    ELSE IF ~nick_in_range(c.conn) THEN panic(c)
    ELSE IF Unwrap(msg.pfx).nick = get_nick(c.conn)
         THEN LET c1 == set_nick(c, msg.arg)
                  c2 == push_ev(c1, EvNickChange(get_nick(c1.conn)))
              IN  nickserv_ident([c2 EXCEPT !.conn.nick_accepted = TRUE])
         ELSE c

\* NICK from a user prefix (conn.rs 711-723)
on_nick(c, msg) ==
    IF c.panicked \/ msg.cmd # "NICK" \/ ~IsSome(msg.pfx) THEN c
    ELSE IF ~nick_in_range(c.conn) THEN panic(c)
    ELSE IF Unwrap(msg.pfx).nick = get_nick(c.conn)
         THEN LET c1 == set_nick(c, msg.arg)
                  c2 == push_ev(c1, EvNickChange(get_nick(c1.conn)))
              IN  nickserv_ident(c2)
         ELSE c

\* A 376 handler that sets the away mode before it joins.
on_376_away_first(c, msg) ==
    IF c.panicked \/ msg.cmd # "Reply" \/ msg.num # 376 THEN c
    ELSE IF ~get_stream(c.conn.status) THEN c
    ELSE LET c1 == IF IsSome(c.conn.away_status)
                   THEN [c EXCEPT !.out = Append(@, wire_away(c.conn.away_status))]
                   ELSE c
         IN  IF c1.conn.auto_join # <<>>
             THEN [c1 EXCEPT !.out = Append(@, wire_join(c1.conn.auto_join))]
             ELSE c1

\* 376 (conn.rs 725-749)
on_376(c, msg) ==
    IF c.panicked \/ msg.cmd # "Reply" \/ msg.num # 376 THEN c
    ELSE IF ~get_stream(c.conn.status) THEN c
    ELSE LET c1 == IF c.conn.auto_join # <<>>
                   THEN [c EXCEPT !.out = Append(@, wire_join(c.conn.auto_join))]
                   ELSE c
         IN  IF IsSome(c1.conn.away_status)
             THEN [c1 EXCEPT !.out = Append(@, wire_away(c1.conn.away_status))]
             ELSE c1

\* 332 (conn.rs 751-767)
on_332(c, msg) ==
    IF c.panicked \/ msg.cmd # "Reply" \/ msg.num # 332 THEN c
    ELSE IF Len(msg.params) \notin {2, 3} THEN c
    ELSE LET chan == msg.params[Len(msg.params) - 1]
         IN  IF ~contains(c.conn.auto_join, chan)
             THEN [c EXCEPT !.conn.auto_join = Append(@, chan)]
             ELSE c

handle_msg(c, msg) ==
    LET c1 == on_cap(c, msg)
        c2 == on_authenticate(c1, msg)
        c3 == on_sasl_reply(c2, msg)
        c4 == on_ping(c3, msg)
        c5 == on_join(c4, msg)
        c6 == on_396(c5, msg)
        c7 == on_302(c6, msg)
        c8 == on_001(c7, msg)
        c9 == on_002(c8, msg)
        c10 == on_433(c9, msg)
        c11 == on_nick(c10, msg)
        c12 == on_376(c11, msg)
        c13 == on_332(c12, msg)
    IN  push_ev(c13, EvMsg(msg))

\* Conn::handle_msgs (conn.rs 529-533)
RECURSIVE handle_msgs(_)
handle_msgs(c) ==
    IF c.panicked THEN c
    ELSE LET r == Msg_read(c.conn.in_buf)
         IN  IF IsSome(r.msg)
             THEN handle_msgs(handle_msg([c EXCEPT !.conn.in_buf = r.buf], Unwrap(r.msg)))
             ELSE c

\* A read_ready that gives the connection up on a stream error.
read_ready_drop_on_error(c, result) ==
    IF ~get_stream(c.conn.status) THEN c
    ELSE CASE result[1] = "would_block" -> c
           [] result[1] = "error" ->
                enter_disconnect_state(push_ev(c, EvErr("error")))
           [] OTHER ->
                LET c1 == reset_ticks(c)
                    c2 == [c1 EXCEPT !.conn.in_buf = @ \o result[2]]
                IN  handle_msgs(c2)

\* Conn::read_ready (conn.rs 510-527). `result` is what stream.read_ready()
\* returned: <<"would_block">>, <<"error">> or <<"ok", bytes>>.
read_ready(c, result) ==
    IF ~get_stream(c.conn.status) THEN c
    ELSE CASE result[1] = "would_block" -> c
           [] result[1] = "error" -> push_ev(c, EvErr("error"))
           [] OTHER ->
                LET c1 == reset_ticks(c)
                    c2 == [c1 EXCEPT !.conn.in_buf = @ \o result[2]]
                IN  handle_msgs(c2)

----------------------------------------------------------------------------
(***************************************************************************)
(* The environment: what the caller and the server may do. A universe U    *)
(* names the configurations Conn::new is given, the lines the server       *)
(* sends, and the arguments of the outbound calls.                         *)
(***************************************************************************)

\* the most nicks the list may grow to
MaxNicks == 3
\* the most complete lines one read delivers
MaxLines == 1

N_a == <<"a">>
N_b == <<"b">>
N_c == <<"c">>
ChanA == <<"#", "a">>
ChanB == <<"#", "b">>
T_gone == <<"g", "o", "n", "e">>
T_hi == <<"h", "i">>
T_topic == <<"t", "o", "p", "i", "c">>
T_user == <<"u">>
T_irc == <<"i", "r", "c">>
T_pw == <<"p", "w">>
T_YourHostIs == <<"Y", "o", "u", "r", " ", "h", "o", "s", "t", " ", "i", "s", " ">>

BaseServer ==
    [ addr |-> T_irc, port |-> 6667, tls |-> FALSE,
      hostname |-> <<"h">>, realname |-> <<"r">>,
      pass |-> None, nicks |-> <<N_a>>, join |-> <<>>,
      nickserv_ident |-> None, sasl_auth |-> None ]

M_001 == Reply(1, <<N_a, <<"W", "e", "l", "c", "o", "m", "e">> >>)
M_002 == Reply(2, <<N_a, T_YourHostIs \o T_irc \o <<",", " ", "v", "1">> >>)
M_433 == Reply(433, <<<<"*">>, N_a, <<"i", "n", " ", "u", "s", "e">> >>)
M_376 == Reply(376, <<N_a, <<"E", "n", "d">> >>)
M_332(chan) == Reply(332, <<N_a, chan, T_topic>>)
M_PONG == Msg(None, "PONG", 0, <<>>, <<>>, T_irc)
M_PING == Msg(None, "PING", 0, <<>>, <<>>, T_irc)
M_CAP(sub, caps) == Msg(None, "CAP", 0, sub, caps, <<>>)
M_AUTHENTICATE == Msg(None, "AUTHENTICATE", 0, <<>>, <<>>, T_plus)
M_903 == Reply(903, <<N_a, <<"o", "k">> >>)
M_904 == Reply(904, <<N_a, <<"n", "o">> >>)
M_NICK(old_nick, new_nick) == Msg(User(old_nick, T_user), "NICK", 0, <<>>, <<>>, new_nick)

\* Link state: ticks, PING/PONG, disconnect and reconnect.
LinkU ==
    [ servers |-> {BaseServer},
      msgs |-> {M_001, M_002, M_PONG, M_PING},
      frag |-> {M_PONG},
      send_nicks |-> {N_b},
      chans |-> {ChanA},
      aways |-> {None},
      texts |-> {T_hi},
      new_servs |-> {None},
      scripts |-> {},
      nick_cap |-> MaxNicks ]

\* Nick registration: 433, 001, NICK.
NickU ==
    [ servers |-> {[BaseServer EXCEPT !.nicks = <<N_a, N_b>>]},
      msgs |-> {M_001, M_433, M_NICK(N_a, N_c), M_NICK(N_b, N_a)},
      frag |-> {},
      send_nicks |-> {N_c},
      chans |-> {ChanA},
      aways |-> {None},
      texts |-> {T_hi},
      new_servs |-> {None},
      scripts |-> {},
      nick_cap |-> MaxNicks ]

\* Channels and away: 332, 376, join, part, away.
ChanU ==
    [ servers |-> {BaseServer,
                   [BaseServer EXCEPT !.join = <<ChanA>>],
                   [BaseServer EXCEPT !.join = <<ChanB, ChanA>>],
                   [BaseServer EXCEPT !.join = <<ChanA, ChanA>>]},
      msgs |-> {M_332(ChanA), M_332(ChanB), M_376},
      frag |-> {},
      send_nicks |-> {N_b},
      chans |-> {ChanA, ChanB},
      aways |-> {None, Some(T_gone)},
      texts |-> {T_hi},
      new_servs |-> {None},
      scripts |-> {},
      nick_cap |-> MaxNicks ]

\* Registration: 433 and 001 alone, with and without a NickServ password.
RegU ==
    [ servers |-> {[BaseServer EXCEPT !.nicks = <<N_a, N_b>>],
                   [BaseServer EXCEPT !.nicks = <<N_a, N_b>>,
                                      !.nickserv_ident = Some(T_pw)]},
      msgs |-> {M_001, M_433},
      frag |-> {},
      send_nicks |-> {N_c},
      chans |-> {ChanA},
      aways |-> {None},
      texts |-> {T_hi},
      new_servs |-> {None},
      scripts |-> {},
      nick_cap |-> MaxNicks + 1 ]

\* The replies of a server to the SASL handshake, when they arrive in one read:
\* CAP LS, then CAP ACK, AUTHENTICATE + and 903 or 904, or CAP NAK.
HandshakeScripts ==
    { <<M_CAP(T_LS, <<T_sasl>>), M_CAP(T_ACK, <<T_sasl>>), M_AUTHENTICATE, fin>> :
          fin \in {M_903, M_904} }
        \cup { <<M_CAP(T_LS, <<T_sasl>>), M_CAP(T_NAK, <<T_sasl>>)>> }

\* SASL: capability negotiation before the introduction.
SaslU ==
    [ servers |-> {[BaseServer EXCEPT
                      !.pass = Some(T_pw),
                      !.sasl_auth = Some([username |-> T_user, password |-> T_pw])]},
      msgs |-> {M_CAP(T_LS, <<T_sasl>>), M_CAP(T_ACK, <<T_sasl>>), M_CAP(T_NAK, <<T_sasl>>),
                M_AUTHENTICATE, M_903, M_433},
      frag |-> {},
      send_nicks |-> {N_b},
      chans |-> {ChanA},
      aways |-> {None},
      texts |-> {T_hi},
      new_servs |-> {None},
      scripts |-> HandshakeScripts,
      nick_cap |-> MaxNicks ]

\* CAP LS replies on both paths: a server without and one with sasl_auth.
CapU ==
    [ servers |-> {BaseServer,
                   [BaseServer EXCEPT
                      !.sasl_auth = Some([username |-> T_user, password |-> T_pw])]},
      msgs |-> {M_CAP(T_LS, <<T_sasl>>), M_001},
      frag |-> {},
      send_nicks |-> {N_b},
      chans |-> {ChanA},
      aways |-> {None},
      texts |-> {T_hi},
      new_servs |-> {None},
      scripts |-> {},
      nick_cap |-> MaxNicks ]

RECURSIVE SeqsUpTo(_, _)
SeqsUpTo(S, n) ==
    IF n = 0 THEN {<<>>}
    ELSE LET Q == SeqsUpTo(S, n - 1) IN Q \cup {Append(q, x) : q \in Q, x \in S}

RECURSIVE EncodeAll(_)
EncodeAll(ms) == IF ms = <<>> THEN <<>> ELSE Encode(Head(ms)) \o EncodeAll(Tail(ms))

\* What one successful read may deliver when in_buf holds buf: nothing, or the
\* rest of the line in_buf holds the start of, then up to MaxLines whole lines
\* or one of the universe's longer runs of lines, then possibly the start of
\* one more.
Chunks(U, buf) ==
    LET pre == IF buf = <<>> THEN <<>> ELSE <<LineTail(buf[1].line)>>
    IN  {<<>>} \cup
        { pre \o EncodeAll(ms) \o post :
            ms \in SeqsUpTo(U.msgs, MaxLines) \cup U.scripts,
            post \in {<<>>} \cup {<<LineHead(m)>> : m \in U.frag} }

ReadResults(U, buf) ==
    {<<"would_block">>, <<"error">>} \cup {<<"ok", ch>> : ch \in Chunks(U, buf)}

(***************************************************************************)
(* The history of the current idle run: tick() calls since the link was    *)
(* last set to PingPong{0} by new(), a successful reconnect() or a         *)
(* successful read, and what those ticks emitted. ticks = -1 when the run  *)
(* was cut short by enter_disconnect_state() or a failed reconnect(), or   *)
(* has grown past IdleCap.                                                 *)
(***************************************************************************)
IdleStart == [ticks |-> 0, pings |-> 0, discs |-> 0, wants |-> 0]
IdleNone == [ticks |-> -1, pings |-> 0, discs |-> 0, wants |-> 0]
IdleCap == PING_TICKS + PONG_TICKS + RECONNECT_TICKS

Count(q, x) == Cardinality({k \in 1..Len(q) : q[k] = x})
IsPing(line) == line[1] = "PING"
Pings(out) == Cardinality({k \in 1..Len(out) : IsPing(out[k])})

IdleAfterTick(c) ==
    IF idle.ticks = -1 \/ idle.ticks >= IdleCap \/ c.panicked THEN IdleNone
    ELSE [ ticks |-> idle.ticks + 1,
           pings |-> idle.pings + Pings(c.out),
           discs |-> idle.discs + Count(c.evs, EvDisconnected),
           wants |-> idle.wants + Count(c.evs, EvWantReconnect) ]

----------------------------------------------------------------------------
(***************************************************************************)
(* Actions: one per call of the Conn API.                                  *)
(***************************************************************************)

NoIdentity == [user |-> <<>>, host |-> <<>>]

SplitParked ==
    /\ iter = [s |-> None, max |-> 0]
    /\ source = <<>>
    /\ yielded = <<>>
    /\ last_ret = "start"
    /\ identity = NoIdentity

ConnInit(U) ==
    /\ \E server \in U.servers :
         LET c == new(server)
         IN  /\ conn = c.conn
             /\ written = c.out
             /\ evs = c.evs
             /\ panicked = c.panicked
    /\ call = <<"new", <<>> >>
    /\ idle = IdleStart
    /\ cap_ls_seen = FALSE
    /\ SplitParked

\* Has the call dispatched a CAP LS reply (pushed its Msg event)?
DispatchedCapLs(c) ==
    \E k \in 1..Len(c.evs) :
        /\ c.evs[k][1] = "Msg"
        /\ c.evs[k][2].cmd = "CAP"
        /\ c.evs[k][2].sub = T_LS

\* The call `name(arg)` ends in context c.
Returns(c, name, arg) ==
    /\ cap_ls_seen' = IF name = "reconnect" THEN FALSE
                      ELSE cap_ls_seen \/ DispatchedCapLs(c)
    /\ conn' = c.conn
    /\ written' = c.out
    /\ evs' = c.evs
    /\ panicked' = c.panicked
    /\ call' = <<name, arg>>
    /\ UNCHANGED splitVars

Tick ==
    /\ ~panicked
    /\ \E c \in tick(Ctx(conn)) :
         /\ Returns(c, "tick", <<>>)
         /\ idle' = IdleAfterTick(c)

ReadReady(U) ==
    /\ ~panicked
    /\ \E result \in ReadResults(U, conn.in_buf) :
         LET c == read_ready(Ctx(conn), result)
         IN  /\ Len(c.conn.nicks) <= U.nick_cap
             /\ Returns(c, "read_ready", <<result[1]>>)
             /\ idle' = IF result[1] = "ok" /\ get_stream(conn.status)
                        THEN IdleStart ELSE idle

WriteReady ==
    /\ ~panicked
    /\ \E result \in {"ok", "would_block", "error"} :
         Returns(write_ready(Ctx(conn), result), "write_ready", <<result>>)
    /\ UNCHANGED idle

SendNick(U) ==
    /\ ~panicked
    /\ \E nick \in U.send_nicks : Returns(send_nick(Ctx(conn), nick), "send_nick", nick)
    /\ UNCHANGED idle

Privmsg(U) ==
    /\ ~panicked
    /\ \E target \in U.chans, msg \in U.texts :
         Returns(privmsg(Ctx(conn), target, msg), "privmsg", target)
    /\ UNCHANGED idle

CtcpAction(U) ==
    /\ ~panicked
    /\ \E target \in U.chans, msg \in U.texts :
         Returns(ctcp_action(Ctx(conn), target, msg), "ctcp_action", target)
    /\ UNCHANGED idle

Join(U) ==
    /\ ~panicked
    /\ \E chan \in U.chans : Returns(join(Ctx(conn), <<chan>>), "join", chan)
    /\ UNCHANGED idle

Part(U) ==
    /\ ~panicked
    /\ \E chan \in U.chans : Returns(part(Ctx(conn), chan), "part", chan)
    /\ UNCHANGED idle

Away(U) ==
    /\ ~panicked
    /\ \E msg \in U.aways : Returns(away(Ctx(conn), msg), "away", msg)
    /\ UNCHANGED idle

RawMsg(U) ==
    /\ ~panicked
    /\ \E msg \in U.texts : Returns(raw_msg(Ctx(conn), msg), "raw_msg", msg)
    /\ UNCHANGED idle

EnterDisconnectState ==
    /\ ~panicked
    /\ Returns(enter_disconnect_state(Ctx(conn)), "enter_disconnect_state", <<>>)
    /\ idle' = IdleNone

Reconnect(U) ==
    /\ ~panicked
    /\ \E new_serv \in U.new_servs, opened \in BOOLEAN :
         LET c == reconnect(Ctx(conn), new_serv, opened)
         IN  /\ Returns(c, "reconnect", <<opened>>)
             /\ idle' = IF opened /\ ~c.panicked THEN IdleStart ELSE IdleNone

ConnNext(U) ==
    \/ Tick
    \/ ReadReady(U)
    \/ WriteReady
    \/ SendNick(U)
    \/ Privmsg(U)
    \/ CtcpAction(U)
    \/ Join(U)
    \/ Part(U)
    \/ Away(U)
    \/ RawMsg(U)
    \/ EnterDisconnectState
    \/ Reconnect(U)

SpecLink == ConnInit(LinkU) /\ [][ConnNext(LinkU)]_vars
SpecNick == ConnInit(NickU) /\ [][ConnNext(NickU)]_vars
SpecChan == ConnInit(ChanU) /\ [][ConnNext(ChanU)]_vars
SpecReg == ConnInit(RegU) /\ [][ConnNext(RegU)]_vars
SpecSasl == ConnInit(SaslU) /\ [][ConnNext(SaslU)]_vars
SpecCap == ConnInit(CapU) /\ [][ConnNext(CapU)]_vars

(***************************************************************************)
(* Parsing of 002 and 302 replies: the server sends replies of every shape *)
(* and the caller only reads.                                              *)
(***************************************************************************)
\* the longest text after "Your host is " in a 002 reply
MaxTail == 3

TailChars == {"h", ",", "["}

T_mask == <<"u", "@", "h">>

\* 002 replies: a text after "Your host is " in params[1] or, with one
\* parameter, in params[0]; a text shorter than 13 bytes; no parameter.
Replies002 ==
    {Reply(2, <<N_a, T_YourHostIs \o tl>>) : tl \in SeqsUpTo(TailChars, MaxTail)}
        \cup {Reply(2, <<T_YourHostIs \o tl>>) : tl \in SeqsUpTo(TailChars, 1)}
        \cup {Reply(2, <<N_a, T_irc>>), Reply(2, <<T_irc>>), Reply(2, <<>>)}

\* 302 replies: nick=mask with and without a sign and trailing space, no '=',
\* one parameter, no parameter.
Replies302 ==
    {Reply(302, <<N_a, N_a \o <<"=">> \o sign \o T_mask \o sp>>) :
        sign \in {<<>>, <<"+">>, <<"-">>}, sp \in {<<>>, <<" ">>}}
        \cup {Reply(302, <<N_a, N_a \o T_mask>>), Reply(302, <<N_a, N_a \o <<"=">> >>),
              Reply(302, <<N_a>>), Reply(302, <<>>)}

ParseU ==
    [ servers |-> {BaseServer},
      msgs |-> Replies002 \cup Replies302,
      frag |-> {},
      send_nicks |-> {N_b},
      chans |-> {ChanA},
      aways |-> {None},
      texts |-> {T_hi},
      new_servs |-> {None},
      scripts |-> {},
      nick_cap |-> MaxNicks ]

SpecParse == ConnInit(ParseU) /\ [][ReadReady(ParseU)]_vars

\* The Conn fields while the splitter alone is exercised.
ConnParked ==
    /\ conn = new(BaseServer).conn
    /\ written = <<>>
    /\ evs = <<>>
    /\ call = <<"new", <<>> >>
    /\ panicked = FALSE
    /\ idle = IdleStart
    /\ cap_ls_seen = FALSE

SplitInit ==
    /\ \E m \in Texts(MaxChars) \cup TestTexts, max \in 0..MaxBudget :
        /\ source = m
        /\ iter = split_iterator(m, max)
        /\ yielded = <<>>
        /\ last_ret = "start"
    /\ identity = NoIdentity
    /\ ConnParked

\* One call of next() by the consumer of the iterator. A panic ends the run.
SplitNext ==
    /\ last_ret # "panic"
    /\ LET r == SplitIterator_next(iter)
       IN  /\ iter' = [iter EXCEPT !.s = r.s]
           /\ yielded' = IF r.ret = "some" THEN Append(yielded, r.item) ELSE yielded
           /\ last_ret' = r.ret
    /\ UNCHANGED <<source, identity>>
    /\ UNCHANGED connVars

SpecSplit == SplitInit /\ [][SplitNext]_vars

(***************************************************************************)
(* The budget of split_privmsg: the server relays the client's lines under *)
(* nick!user@host, the client learns its user mask from a self-JOIN, a 396 *)
(* or a 302, and splits a text for a target.                               *)
(***************************************************************************)
\* the longest nick
MaxNickLen == 9
\* the longest text handed to split_privmsg, in bytes
MaxText == 520

\* the longest user name and host name a server relays (conn.rs 433-436)
USER_MAX == 9
HOST_MAX == 63

Fill(n, ch) == [i \in 1..n |-> ch]

BudgetServers ==
    {[BaseServer EXCEPT !.nicks = <<nick>>] : nick \in {N_a, Fill(MaxNickLen, "n")}}

Identities ==
    {[user |-> Fill(ul, "u"), host |-> Fill(hl, "h")] :
        ul \in {1, USER_MAX}, hl \in {1, HOST_MAX}}

BudgetTargets == {ChanA, N_b}

\* n copies of the text t.
Repeat(t, n) == [i \in 1..(n * Len(t)) |-> t[((i - 1) % Len(t)) + 1]]

\* Texts longer than any budget, one without and one with spaces, and a
\* short text.
BudgetTexts ==
    {Fill(MaxText, 120), Repeat(T_yada \o T_space, MaxText \div 5), <<104, 105>>}

\* The lines that tell a client its user mask, as a server sends them to the
\* client with nick `nick` that it knows as nick!user@host.
M_JOIN(nick, id) == Msg(User(nick, id.user), "JOIN", 0, <<>>, <<>>, ChanA)
M_396(nick, id) == Reply(396, <<nick, id.host, <<"h", "i", "d", "d", "e", "n">> >>)
M_302(nick, id) ==
    Reply(302, <<nick, nick \o <<"=", "+">> \o id.user \o <<"@">> \o id.host \o <<" ">> >>)
MaskLines(nick, id) == {M_JOIN(nick, id), M_396(nick, id), M_302(nick, id)}

BudgetInit ==
    /\ \E server \in BudgetServers :
         LET c == new(server)
         IN  /\ conn = c.conn
             /\ written = c.out
             /\ evs = c.evs
             /\ panicked = c.panicked
    /\ call = <<"new", <<>> >>
    /\ idle = IdleStart
    /\ cap_ls_seen = FALSE
    /\ iter = [s |-> None, max |-> 0]
    /\ source = <<>>
    /\ yielded = <<>>
    /\ last_ret = "start"
    /\ identity \in Identities

\* A read that delivers one of the lines that carry the user mask.
LearnMask ==
    /\ ~panicked
    /\ \E m \in MaskLines(get_nick(conn), identity) :
         Returns(read_ready(Ctx(conn), <<"ok", Encode(m)>>), "read_ready", <<"ok">>)
    /\ idle' = IdleStart

\* split_privmsg(target.len(), msg)
SplitPrivmsg ==
    /\ ~panicked
    /\ \E target \in BudgetTargets, msg \in BudgetTexts :
         LET r == split_privmsg(conn, Len(target), msg)
         IN  /\ panicked' = r.panic
             /\ iter' = r.iter
             /\ source' = msg
             /\ call' = <<"split_privmsg", target>>
    /\ yielded' = <<>>
    /\ last_ret' = "start"
    /\ written' = <<>>
    /\ evs' = <<>>
    /\ UNCHANGED <<conn, idle, cap_ls_seen, identity>>

\* next() on the iterator split_privmsg returned.
NextSlice ==
    /\ ~panicked
    /\ call[1] = "split_privmsg"
    /\ SplitNext

BudgetNext ==
    \/ LearnMask
    \/ SplitPrivmsg
    \/ NextSlice

SpecBudget == BudgetInit /\ [][BudgetNext]_vars

----------------------------------------------------------------------------
(***************************************************************************)
(* Properties of the connection.                                           *)
(***************************************************************************)

LastCall == call[1]
LastArg == call[2]
OutboundCalls ==
    {"send_nick", "privmsg", "ctcp_action", "join", "part", "away", "raw_msg"}

\* C1 (SpecLink): with servername known, in a run of n tick() calls since the
\* link was set to PingPong{0} with no bytes read in between, no PING is
\* written and the state is PingPong{n} while n < 60; the 60th tick writes
\* the one PING, addressed to servername, and leaves WaitPong{0}; no further
\* PING and no Disconnected event follow while n < 120; the 120th tick emits
\* the one Disconnected event and leaves Disconnected{0} with nick_accepted
\* false.
C1_PingThenDisconnect ==
    (idle.ticks >= 0 /\ idle.ticks <= PING_TICKS + PONG_TICKS
        /\ IsSome(conn.servername) /\ ~panicked) =>
        /\ idle.ticks < PING_TICKS =>
              /\ idle.pings = 0 /\ idle.discs = 0
              /\ conn.status = PingPong(idle.ticks)
        /\ (idle.ticks >= PING_TICKS /\ idle.ticks < PING_TICKS + PONG_TICKS) =>
              /\ idle.pings = 1 /\ idle.discs = 0
              /\ conn.status = WaitPong(idle.ticks - PING_TICKS)
        /\ (idle.ticks = PING_TICKS /\ LastCall = "tick") =>
              written = <<wire_ping(Unwrap(conn.servername))>>
        /\ idle.ticks = PING_TICKS + PONG_TICKS =>
              /\ idle.pings = 1 /\ idle.discs = 1
              /\ conn.status = Disconnected(0)
              /\ ~conn.nick_accepted
        /\ (idle.ticks = PING_TICKS + PONG_TICKS /\ LastCall = "tick") =>
              evs = <<EvDisconnected>>

\* The 120th tick of such a run has just returned.
C1_Witness ==
    /\ idle.ticks = PING_TICKS + PONG_TICKS
    /\ IsSome(conn.servername)
    /\ LastCall = "tick"
    /\ idle.pings = 1
    /\ evs = <<EvDisconnected>>
    /\ conn.status = Disconnected(0)

\* C2 (SpecNick): a call pushes WantReconnect exactly when it is a tick() in
\* the Disconnected state that brings the counter to RECONNECT_TICKS; that
\* tick resets current_nick_idx to 0 and leaves Disconnected with the counter
\* incremented.
C2_WantReconnect ==
    [][ LET due == /\ call'[1] = "tick"
                   /\ ~panicked'
                   /\ conn.status.kind = "Disconnected"
                   /\ conn.status.ticks_passed + 1 = RECONNECT_TICKS
        IN  /\ contains(evs', EvWantReconnect) <=> due
            /\ due => /\ evs' = <<EvWantReconnect>>
                       /\ conn'.current_nick_idx = 0
                       /\ conn'.status = Disconnected(RECONNECT_TICKS) ]_vars

\* The tick that asks for the reconnect has just returned, with more than one
\* nick in the list.
C2_Witness ==
    /\ LastCall = "tick"
    /\ evs = <<EvWantReconnect>>
    /\ conn.status = Disconnected(RECONNECT_TICKS)
    /\ conn.current_nick_idx = 0
    /\ Len(conn.nicks) > 1

\* C3 (SpecLink): when a read_ready() whose stream read succeeded returns, the
\* link state is PingPong{0}, whatever the state before and whatever lines
\* were handled.
C3_ReadResetsLink ==
    (LastCall = "read_ready" /\ LastArg = <<"ok">> /\ get_stream(conn.status) /\ ~panicked)
        => conn.status = PingPong(0)

\* A read that handled a line which is not a PONG has just returned.
C3_Witness ==
    /\ LastCall = "read_ready"
    /\ LastArg = <<"ok">>
    /\ conn.status = PingPong(0)
    /\ evs = <<EvMsg(M_PING)>>
    /\ IsSome(conn.servername)

\* C4 (SpecNick): 0 <= current_nick_idx < |nicks| in every reachable state.
C4_NickIdxInRange ==
    /\ conn.current_nick_idx >= 0
    /\ conn.current_nick_idx < Len(conn.nicks)

\* A 433 at the end of the list has grown it and moved the index to the new
\* last nick.
C4_Witness ==
    /\ LastCall = "read_ready"
    /\ Len(conn.nicks) = 3
    /\ conn.current_nick_idx = 2
    /\ written = <<wire_nick(conn.nicks[3])>>

\* C5 as stated: in the Disconnected state every outbound call writes nothing
\* and leaves every field of the connection unchanged.
C5_NoOpWhenDisconnected ==
    [][ (conn.status.kind = "Disconnected" /\ call'[1] \in OutboundCalls) =>
            (written' = <<>> /\ conn' = conn) ]_vars

\* C5 amended: in the Disconnected state every outbound call writes nothing
\* and pushes no event; send_nick, privmsg, ctcp_action, join and raw_msg
\* leave every field unchanged, part(c) changes auto_join alone, removing c
\* from it, and away(m) changes away_status alone, setting it to m.
C5_NoWriteWhenDisconnected ==
    [][ (conn.status.kind = "Disconnected" /\ call'[1] \in OutboundCalls) =>
            /\ written' = <<>>
            /\ evs' = <<>>
            /\ conn' = [conn EXCEPT
                          !.auto_join =
                              IF call'[1] = "part"
                              THEN SelectSeq(@, LAMBDA ch : ch # call'[2])
                              ELSE @,
                          !.away_status =
                              IF call'[1] = "away" THEN call'[2] ELSE @] ]_vars

\* An away() made while Disconnected has stored its reason and written nothing.
C5_Witness ==
    /\ conn.status.kind = "Disconnected"
    /\ call = <<"away", Some(T_gone)>>
    /\ conn.away_status = Some(T_gone)
    /\ written = <<>>

\* C6 (SpecNick): Disconnected implies nick_accepted false; nick_accepted is
\* false when new() and when reconnect() return; and a call turns
\* nick_accepted from false to true only if it is a read_ready() that handled
\* a 001 reply.
C6_NickAccepted ==
    /\ [](/\ conn.status.kind = "Disconnected" => ~conn.nick_accepted
          /\ LastCall \in {"new", "reconnect"} => ~conn.nick_accepted)
    /\ [][ (~conn.nick_accepted /\ conn'.nick_accepted) =>
                /\ call'[1] = "read_ready"
                /\ contains(evs', EvMsg(M_001))
                /\ contains(evs', EvConnected) ]_vars

\* A PONG timeout has just disconnected the link.
C6_Witness ==
    /\ conn.status = Disconnected(0)
    /\ LastCall = "tick"
    /\ evs = <<EvDisconnected>>
    /\ ~conn.nick_accepted

NoDuplicates(q) == \A j, k \in 1..Len(q) : q[j] = q[k] => j = k

\* C7 as stated (SpecChan): in every reachable state auto_join holds no
\* channel twice.
C7_AutoJoinNoDuplicates == NoDuplicates(conn.auto_join)

\* C8 (SpecChan): when part(c) returns, c is not in auto_join, in every link
\* state; and part(c) leaves in auto_join exactly the other channels, in their
\* previous order.
C8_PartRemoves ==
    /\ [](LastCall = "part" => ~contains(conn.auto_join, LastArg))
    /\ [][ call'[1] = "part" =>
                conn'.auto_join = SelectSeq(conn.auto_join, LAMBDA ch : ch # call'[2]) ]_vars

\* A part() made while Disconnected has removed its channel and kept the other.
C8_Witness ==
    /\ conn.status.kind = "Disconnected"
    /\ call = <<"part", ChanA>>
    /\ conn.auto_join = <<ChanB>>

----------------------------------------------------------------------------
(***************************************************************************)
(* Properties of the splitter (checked under SpecSplit).                   *)
(***************************************************************************)

\* The encoded width of the widest character of s (0 for the empty text).
RECURSIVE Widest(_, _)
Widest(s, i) ==
    IF i >= Len(s) THEN 0
    ELSE LET w == utf8_width(s[i + 1])
             r == Widest(s, i + w)
         IN  IF w > r THEN w ELSE r

RECURSIVE Flatten(_)
Flatten(q) == IF q = <<>> THEN <<>> ELSE Head(q) \o Flatten(Tail(q))

\* What is left to split.
Remaining == IF iter.s = None THEN <<>> ELSE Unwrap(iter.s)

SlicesFit == \A k \in 1..Len(yielded) : Len(yielded[k]) <= iter.max

\* Every character of the text fits the budget on its own.
CharsFit == Widest(source, 0) <= iter.max

\* C9 as stated: for every text and every budget > 0, every slice is at most
\* the budget long and next() never aborts.
C9_AnyBudget == iter.max > 0 => (SlicesFit /\ last_ret # "panic")

\* C9 amended: for every text and every budget > 0 that is at least the
\* encoded length of each character of the text (so for every budget >= 4),
\* every slice yielded is at most the budget long and next() never aborts; a
\* slice never exceeds the budget even when a later call aborts.
C9_SlicesWithinBudget ==
    /\ iter.max > 0 => SlicesFit
    /\ (iter.max > 0 /\ CharsFit) => last_ret # "panic"

\* A text with 3-byte characters split into three or more slices under budget 3.
C9_Witness ==
    /\ iter.max = 3
    /\ Widest(source, 0) = 3
    /\ Len(yielded) >= 3
    /\ iter.s = None

\* C10 as stated: for every text and every budget > 0 the iteration ends
\* without aborting and the slices, concatenated in order, are the text.
C10_AnyBudget ==
    iter.max > 0 =>
        /\ last_ret # "panic"
        /\ Flatten(yielded) \o Remaining = source

\* C10 amended: for every text and every budget > 0 that is at least the
\* encoded length of each character of the text (so for every budget >= 4),
\* next() never aborts, the slices yielded so far followed by what is left are
\* exactly the text, the slices of a finished iteration concatenate to the
\* text, and every slice of a non-empty text is non-empty, so there are at
\* most |text| slices.
C10_ConcatIsSource ==
    (iter.max > 0 /\ CharsFit) =>
        /\ last_ret # "panic"
        /\ Flatten(yielded) \o Remaining = source
        /\ (iter.s = None => Flatten(yielded) = source)
        /\ source # <<>> => \A k \in 1..Len(yielded) : Len(yielded[k]) > 0
        /\ Len(yielded) <= Len(source) + 1

\* A finished iteration that cut a text with whitespace and a 4-byte
\* character into several slices.
C10_Witness ==
    /\ iter.s = None
    /\ last_ret = "none"
    /\ Len(yielded) >= 3
    /\ iter.max >= 4
    /\ Widest(source, 0) = 4
    /\ match_indices(source, 0) # <<>>

----------------------------------------------------------------------------
(***************************************************************************)
(* Properties of registration and reconnection.                            *)
(***************************************************************************)

\* The Msg events among the events of a call: the lines it dispatched.
Dispatched(es) == SelectSeq(es, LAMBDA e : e[1] = "Msg")

\* C11 (SpecReg): a read that dispatches one 433 while nick_accepted is false
\* increments current_nick_idx and writes nothing when the index was not the
\* last one; at the last index it appends nicks.last + "_" to nicks, moves the
\* index to it and writes NICK with the new nick alone. While nick_accepted is
\* true a 433 changes neither nicks nor the index and writes nothing.
C11_NickInUse ==
    [][ (call'[1] = "read_ready" /\ ~panicked' /\ evs' = <<EvMsg(M_433)>>) =>
            IF conn.nick_accepted
            THEN /\ conn'.nicks = conn.nicks
                 /\ conn'.current_nick_idx = conn.current_nick_idx
                 /\ written' = <<>>
            ELSE IF conn.current_nick_idx + 1 < Len(conn.nicks)
            THEN /\ conn'.nicks = conn.nicks
                 /\ conn'.current_nick_idx = conn.current_nick_idx + 1
                 /\ written' = <<>>
            ELSE LET new_nick == Append(conn.nicks[Len(conn.nicks)], "_")
                 IN  /\ conn'.nicks = Append(conn.nicks, new_nick)
                     /\ conn'.current_nick_idx = conn.current_nick_idx + 1
                     /\ written' = <<wire_nick(new_nick)>> ]_vars

\* With nicks [a, b] the third 433 has just written NICK b__.
C11_Witness ==
    /\ call = <<"read_ready", <<"ok">> >>
    /\ evs = <<EvMsg(M_433)>>
    /\ ~conn.nick_accepted
    /\ conn.nicks = <<N_a, N_b, <<"b", "_">>, <<"b", "_", "_">> >>
    /\ conn.current_nick_idx = 3
    /\ written = <<wire_nick(<<"b", "_", "_">>)>>

\* C12 (SpecReg): a read that dispatches one 001 leaves nick_accepted true,
\* pushes Connected, NickChange(current nick) and Msg(the 001) in that order
\* and nothing else, and writes the NickServ identify PRIVMSG when
\* nickserv_ident is configured and nothing when it is not.
C12_Welcome ==
    [][ (call'[1] = "read_ready" /\ ~panicked'
            /\ Dispatched(evs') = <<EvMsg(M_001)>>) =>
            /\ conn'.nick_accepted
            /\ evs' = <<EvConnected, EvNickChange(get_nick(conn)), EvMsg(M_001)>>
            /\ get_nick(conn') = get_nick(conn)
            /\ written' = IF IsSome(conn.nickserv_ident)
                          THEN <<wire_privmsg(T_NickServ,
                                     T_identify \o Unwrap(conn.nickserv_ident))>>
                          ELSE <<>> ]_vars

\* A 001 for the second nick has just been handled, with a NickServ password.
C12_Witness ==
    /\ call = <<"read_ready", <<"ok">> >>
    /\ evs = <<EvConnected, EvNickChange(N_b), EvMsg(M_001)>>
    /\ written = <<wire_privmsg(T_NickServ, T_identify \o T_pw)>>
    /\ conn.nick_accepted

\* The lines of a call that are a PASS, a NICK or a USER.
IntroLines(out) == SelectSeq(out, LAMBDA l : l[1] \in {"PASS", "NICK", "USER"})

\* new() or a reconnect() that opened a stream has just returned.
JustOpened == call[1] = "new" \/ call = <<"reconnect", <<TRUE>> >>

\* C13 as stated (SpecSasl): with sasl_auth configured, new() and a reconnect()
\* that opens a stream write CAP LS and nothing else, and no call writes a
\* PASS, NICK or USER while no CAP LS reply has been dispatched on the
\* connection.
C13_NothingBeforeCapLs ==
    /\ []((IsSome(conn.sasl_auth) /\ JustOpened /\ ~panicked) => written = <<wire_cap_ls>>)
    /\ [][ (IsSome(conn'.sasl_auth) /\ ~cap_ls_seen' /\ ~panicked') =>
                IntroLines(written') = <<>> ]_vars

\* C13 amended: with sasl_auth configured, new() and a reconnect() that opens
\* a stream write CAP LS and nothing else; while no CAP LS reply has been
\* dispatched on the connection no PASS and no USER is written, and a NICK is
\* written only by send_nick(), with its argument, and by a read that handles
\* a 433 while nick_accepted is false, with the nick next_nick() appended.
C13_IntroductionDeferred ==
    /\ []((IsSome(conn.sasl_auth) /\ JustOpened /\ ~panicked) => written = <<wire_cap_ls>>)
    /\ [][ (IsSome(conn'.sasl_auth) /\ ~cap_ls_seen' /\ ~panicked') =>
                \/ IntroLines(written') = <<>>
                \/ /\ call'[1] = "send_nick"
                   /\ written' = <<wire_nick(call'[2])>>
                \/ /\ call'[1] = "read_ready"
                   /\ contains(evs', EvMsg(M_433))
                   /\ ~conn.nick_accepted
                   /\ \A k \in 1..Len(IntroLines(written')) :
                         /\ IntroLines(written')[k][1] = "NICK"
                         /\ contains(conn'.nicks, IntroLines(written')[k][2])
                         /\ ~contains(conn.nicks, IntroLines(written')[k][2]) ]_vars

\* A reconnect() on the SASL path has just written CAP LS, after the previous
\* connection had been introduced.
C13_Witness ==
    /\ IsSome(conn.sasl_auth)
    /\ call = <<"reconnect", <<TRUE>> >>
    /\ written = <<wire_cap_ls>>
    /\ ~cap_ls_seen
    /\ conn.status = PingPong(0)
    /\ Len(conn.nicks) > 1

\* C14 as stated (SpecReg): a reconnect() on the plain path that opens a
\* stream writes the introduction with NICK nicks[0], the nick get_nick()
\* reports when it returns, and leaves current_nick_idx 0 and the link state
\* PingPong{0}.
C14_ReconnectIntroducesFirstNick ==
    [][ (call' = <<"reconnect", <<TRUE>> >> /\ ~IsSome(conn.sasl_auth) /\ ~panicked') =>
            /\ conn'.current_nick_idx = 0
            /\ conn'.status = PingPong(0)
            /\ written' = introduce(conn'.pass, conn'.hostname, conn'.realname,
                                    get_nick(conn')) ]_vars

\* C15 (SpecChan): tick() (a PONG timeout included), enter_disconnect_state()
\* and reconnect() leave auto_join and away_status unchanged; a read that
\* dispatches one 376 writes one JOIN listing auto_join in its stored order
\* when auto_join is not empty, then one AWAY with the stored reason when
\* away_status is set, and nothing else.
C15_SessionReasserted ==
    /\ [][ call'[1] \in {"tick", "enter_disconnect_state", "reconnect"} =>
                /\ conn'.auto_join = conn.auto_join
                /\ conn'.away_status = conn.away_status ]_vars
    /\ [][ (call'[1] = "read_ready" /\ ~panicked'
                /\ Dispatched(evs') = <<EvMsg(M_376)>>) =>
                /\ conn'.auto_join = conn.auto_join
                /\ conn'.away_status = conn.away_status
                /\ written' =
                       (IF conn.auto_join # <<>>
                        THEN <<wire_join(conn.auto_join)>> ELSE <<>>)
                       \o (IF IsSome(conn.away_status)
                           THEN <<wire_away(conn.away_status)>> ELSE <<>>) ]_vars

\* A 376 has just been answered with a JOIN of a channel list grown by a 332
\* and an AWAY.
C15_Witness ==
    /\ call = <<"read_ready", <<"ok">> >>
    /\ evs = <<EvMsg(M_376)>>
    /\ conn.auto_join = <<ChanA, ChanB>>
    /\ written = <<wire_join(<<ChanA, ChanB>>), wire_away(Some(T_gone))>>

----------------------------------------------------------------------------
(***************************************************************************)
(* Properties of error handling and parsing.                               *)
(***************************************************************************)

\* C16 (SpecLink): a read_ready() or write_ready() whose stream call fails
\* with would-block pushes no event; one whose stream call fails otherwise
\* pushes one Err and nothing else; both write nothing and leave every field
\* of the connection (link state, tick counter, in_buf, session fields) as it
\* was.
C16_StreamErrors ==
    [][ (call'[1] \in {"read_ready", "write_ready"} /\ get_stream(conn.status)) =>
            /\ call'[2] = <<"would_block">> =>
                  (evs' = <<>> /\ written' = <<>> /\ conn' = conn /\ ~panicked')
            /\ call'[2] = <<"error">> =>
                  (evs' = <<EvErr("error")>> /\ written' = <<>> /\ conn' = conn
                      /\ ~panicked') ]_vars

\* A read has just failed while a PONG was awaited and half a line was
\* buffered.
C16_Witness ==
    /\ call = <<"read_ready", <<"error">> >>
    /\ evs = <<EvErr("error")>>
    /\ conn.status.kind = "WaitPong"
    /\ conn.status.ticks_passed > 0
    /\ conn.in_buf # <<>>

\* The one line the most recent call dispatched.
TheLine == Dispatched(evs)[1][2]
OneLineRead == call = <<"read_ready", <<"ok">> >> /\ Len(Dispatched(evs)) = 1

\* The text of a 002 reply: params[1], or params[0] when there is no params[1].
HostText(m) == IF Len(m.params) >= 2 THEN m.params[2] ELSE m.params[1]

\* The 0-based indices of s that hold a '[' or a ','.
Delimiters(s) == {k - 1 : k \in {j \in 1..Len(s) : s[j] \in {"[", ","}}}

Least(S) == CHOOSE x \in S : \A y \in S : x <= y

\* C17 as stated (SpecParse): after a read that dispatched one 002 reply whose
\* text has a '[' or a ',' after its first 13 bytes, servername is the text
\* between byte 13 and the first of them, whichever of the two it is.
C17_UpToFirstDelimiter ==
    (OneLineRead /\ ~panicked /\ TheLine.num = 2 /\ TheLine.params # <<>>) =>
        LET text == HostText(TheLine)
            rest == SubSeq(text, 14, Len(text))
        IN  (Len(text) >= 13 /\ Delimiters(rest) # {}) =>
                conn.servername = Some(SubSeq(rest, 1, Least(Delimiters(rest))))

\* The replies the handlers cannot parse: a 002 with no parameter, with a
\* text shorter than 13 bytes or with no '[' and no ',' after them; a 302
\* with fewer than two parameters or with no '=' in params[1].
Unparseable(m) ==
    \/ /\ m.num = 2
       /\ \/ m.params = <<>>
          \/ Len(HostText(m)) < 13
          \/ Delimiters(SubSeq(HostText(m), 14, Len(HostText(m)))) = {}
    \/ /\ m.num = 302
       /\ \/ Len(m.params) < 2
          \/ ~contains(m.params[2], "=")

\* C18 as stated (SpecParse, where every line read is a 002 or a 302 reply):
\* no read aborts, and a read that dispatched one unparseable reply has left
\* servername and usermask as they were.
C18_UnparseableSkipped ==
    /\ [](~panicked)
    /\ [][ (OneLineRead' /\ Unparseable(TheLine')) =>
                /\ conn'.servername = conn.servername
                /\ conn'.usermask = conn.usermask ]_vars

\* The tick that brings the PingPong counter to PING_TICKS with no servername.
PingDueUnknownServer ==
    /\ call'[1] = "tick"
    /\ ~panicked'
    /\ conn.status = PingPong(PING_TICKS - 1)
    /\ ~IsSome(conn.servername)

\* C19 as stated (SpecLink): the tick that brings the PingPong counter to
\* PING_TICKS while servername is None writes no PING and leaves the link
\* state PingPong{PING_TICKS}.
C19_StaysInPingPong ==
    [][ PingDueUnknownServer =>
            (written' = <<>> /\ conn'.status = PingPong(PING_TICKS)) ]_vars

\* C19 amended: that tick writes nothing, pushes no event and leaves the link
\* state WaitPong{0}, as it does when servername is known; with no bytes read
\* the run then goes on as in C1 without any PING: WaitPong{n - 60} after n
\* ticks, 60 <= n < 120, and one Disconnected event and Disconnected{0} on
\* the 120th.
C19_WaitsWithoutPing ==
    /\ [][ PingDueUnknownServer =>
                (written' = <<>> /\ evs' = <<>> /\ conn'.status = WaitPong(0)) ]_vars
    /\ []((idle.ticks >= 0 /\ idle.ticks <= PING_TICKS + PONG_TICKS
              /\ ~IsSome(conn.servername) /\ ~panicked) =>
              /\ idle.pings = 0
              /\ idle.ticks < PING_TICKS => conn.status = PingPong(idle.ticks)
              /\ (idle.ticks >= PING_TICKS /\ idle.ticks < PING_TICKS + PONG_TICKS) =>
                    (conn.status = WaitPong(idle.ticks - PING_TICKS) /\ idle.discs = 0)
              /\ idle.ticks = PING_TICKS + PONG_TICKS =>
                    (conn.status = Disconnected(0) /\ idle.discs = 1))

\* The 60th tick of an idle run has just returned with no servername known.
C19_Witness ==
    /\ call[1] = "tick"
    /\ idle.ticks = PING_TICKS
    /\ ~IsSome(conn.servername)
    /\ conn.status = WaitPong(0)
    /\ written = <<>>

----------------------------------------------------------------------------
(***************************************************************************)
(* The cut of the splitter (checked under SpecSplit).                      *)
(***************************************************************************)

Greatest(S) == CHOOSE x \in S : \A y \in S : y <= x

\* The byte indices <= max at which a whitespace character of s starts.
WhitespaceStarts(s, max) ==
    {i \in 0..max : /\ i < Len(s)
                    /\ is_char_boundary(s, i)
                    /\ is_whitespace(decode(s, i, utf8_width(s[i + 1])))}

\* The cut the rightmost of them gives: after it when its end is <= max too,
\* else at its start; 0 when there is none.
WhitespaceCut(s, max) ==
    IF WhitespaceStarts(s, max) = {} THEN 0
    ELSE LET i == Greatest(WhitespaceStarts(s, max))
             w == utf8_width(s[i + 1])
         IN  IF i + w <= max THEN i + w ELSE i

\* The largest codepoint boundary in 1..max; 0 when there is none.
BoundaryCut(s, max) ==
    LET B == {i \in 1..max : is_char_boundary(s, i)}
    IN  IF B = {} THEN 0 ELSE Greatest(B)

CutOf(s, max) ==
    IF WhitespaceCut(s, max) # 0 THEN WhitespaceCut(s, max) ELSE BoundaryCut(s, max)

\* C20 (SpecSplit): when what is left is longer than the budget, next() yields
\* the text up to the cut and keeps the rest, the cut being the one of the
\* rightmost whitespace that starts at an index <= budget (after it when it
\* ends within the budget, else at its start) and, only when that gives no
\* non-zero cut, the largest codepoint boundary <= budget; and the texts of
\* the tests are cut into the slices the tests list.
C20_CutAtWhitespace ==
    /\ [][ (iter.max > 0 /\ iter.s # None /\ Len(Unwrap(iter.s)) > iter.max
                /\ last_ret' = "some") =>
                LET s == Unwrap(iter.s)
                    cut == CutOf(s, iter.max)
                IN  /\ cut > 0
                    /\ yielded' = Append(yielded, SubSeq(s, 1, cut))
                    /\ iter'.s = Some(SubSeq(s, cut + 1, Len(s))) ]_vars
    /\ []((iter.s = None /\ source = T_yada_yada_yada) =>
              /\ iter.max = 5 =>
                    yielded = <<T_yada \o T_space, T_yada \o T_space, T_yada>>
              /\ iter.max = 4 =>
                    yielded = <<T_yada, T_space, T_yada, T_space, T_yada>>
              /\ iter.max = 3 =>
                    yielded = << <<121, 97, 100>>, <<97, 32>>, <<121, 97, 100>>, <<97, 32>>, <<121, 97, 100>>, <<97>> >>)
    /\ []((iter.s = None /\ source = T_longwordislong /\ iter.max = 3) =>
              yielded = << <<108, 111, 110>>, <<103, 119, 111>>, <<114, 100, 105>>, <<115, 108, 111>>, <<110, 103>> >>)

\* "yada yada yada" has been cut for budget 4, at whitespace starts and after
\* whitespace.
C20_Witness ==
    /\ source = T_yada_yada_yada
    /\ iter.max = 4
    /\ iter.s = None
    /\ yielded = <<T_yada, T_space, T_yada, T_space, T_yada>>

----------------------------------------------------------------------------
(***************************************************************************)
(* Properties of capability negotiation and SASL.                          *)
(***************************************************************************)

\* CAP REQ :sasl when the capabilities list "sasl", nothing otherwise.
CapReqFor(caps) == IF contains(caps, T_sasl) THEN <<wire_cap_req(<<T_sasl>>)>> ELSE <<>>

\* C21 as stated (SpecSasl): a read that dispatches one CAP LS reply writes
\* PASS with the server password when one is configured, then NICK nicks[0],
\* then USER, then CAP REQ :sasl exactly when "sasl" is among the listed
\* capabilities, and nothing else.
C21_IntroductionOnCapLs ==
    [][ (OneLineRead' /\ ~panicked' /\ TheLine'.cmd = "CAP" /\ TheLine'.sub = T_LS) =>
            written' = introduce(conn.pass, conn.hostname, conn.realname, conn.nicks[1])
                           \o CapReqFor(TheLine'.params) ]_vars

\* The lines of a call other than PASS.
NotPass(out) == SelectSeq(out, LAMBDA l : l[1] # "PASS")

\* The PLAIN credentials: base64(username NUL username NUL password).
Credentials(auth) ==
    base64_encode(auth.username \o <<NUL>> \o auth.username \o <<NUL>> \o auth.password)

\* What the client writes in answer to one line of the handshake.
AnswerTo(cn, m) ==
    CASE m = M_CAP(T_LS, <<T_sasl>>) ->
            <<wire_nick(cn.nicks[1]), wire_user(cn.hostname, cn.realname),
              wire_cap_req(<<T_sasl>>)>>
      [] m = M_CAP(T_ACK, <<T_sasl>>) -> <<wire_authenticate(T_PLAIN)>>
      [] m = M_CAP(T_NAK, <<T_sasl>>) -> <<wire_cap_end>>
      [] m = M_AUTHENTICATE -> <<wire_authenticate(Credentials(Unwrap(cn.sasl_auth)))>>
      [] m \in {M_903, M_904} -> <<wire_cap_end>>
      [] OTHER -> <<>>

RECURSIVE AnswersTo(_, _)
AnswersTo(cn, ms) ==
    IF ms = <<>> THEN <<>> ELSE AnswerTo(cn, Head(ms)[2]) \o AnswersTo(cn, Tail(ms))

HandshakeLines ==
    {M_CAP(T_LS, <<T_sasl>>), M_CAP(T_ACK, <<T_sasl>>), M_CAP(T_NAK, <<T_sasl>>),
     M_AUTHENTICATE, M_903, M_904}

\* C22 (SpecSasl): with sasl_auth configured, new() and a reconnect() that
\* opens a stream write CAP LS alone; a read that dispatches handshake lines
\* writes, line by line and in their order, NICK nicks[0], USER and CAP REQ
\* :sasl for CAP LS listing sasl (a PASS before the NICK left aside),
\* AUTHENTICATE PLAIN for CAP ACK sasl, AUTHENTICATE base64(username NUL
\* username NUL password) for AUTHENTICATE +, CAP END for 903, 904 and CAP NAK,
\* and nothing else: every reply of the server is met by the one request the
\* next reply answers, so that the replies CAP LS, ACK, AUTHENTICATE +, 903 or
\* 904 give each line of the handshake once and in order.
C22_SaslHandshake ==
    /\ []((IsSome(conn.sasl_auth) /\ JustOpened /\ ~panicked) => written = <<wire_cap_ls>>)
    /\ [][ (call' = <<"read_ready", <<"ok">> >> /\ ~panicked'
                /\ IsSome(conn.sasl_auth)
                /\ Dispatched(evs') # <<>>
                /\ \A k \in 1..Len(Dispatched(evs')) :
                       Dispatched(evs')[k][2] \in HandshakeLines) =>
                NotPass(written') = AnswersTo(conn, Dispatched(evs')) ]_vars

\* The replies CAP LS, CAP ACK, AUTHENTICATE + and 904 have been read at once
\* and answered up to CAP END.
C22_Witness ==
    /\ call = <<"read_ready", <<"ok">> >>
    /\ Dispatched(evs) = <<EvMsg(M_CAP(T_LS, <<T_sasl>>)), EvMsg(M_CAP(T_ACK, <<T_sasl>>)),
                           EvMsg(M_AUTHENTICATE), EvMsg(M_904)>>
    /\ NotPass(written) =
           <<wire_nick(N_a), wire_user(conn.hostname, conn.realname),
             wire_cap_req(<<T_sasl>>), wire_authenticate(T_PLAIN),
             wire_authenticate(base64_encode(<<"u", NUL, "u", NUL, "p", "w">>)),
             wire_cap_end>>

----------------------------------------------------------------------------
(***************************************************************************)
(* Properties of the user mask.                                            *)
(***************************************************************************)

\* The user@host of a RPL_USERHOST parameter target=[+|-]user@host: what
\* follows the first '=' and an optional sign, trimmed.
UserAtHost(param) ==
    LET rest == SubSeq(param, Unwrap(find_byte(param, "=")) + 2, Len(param))
    IN  trim(IF rest # <<>> /\ rest[1] \in {"+", "-"} THEN Tail(rest) ELSE rest)

\* C23 as stated (SpecParse): after a read that dispatched one 302 reply whose
\* params[1] is target=[+|-]user@host, usermask is exactly the trimmed
\* user@host: it holds no '=' and does not start with the sign.
C23_UsermaskIsUserAtHost ==
    (OneLineRead /\ ~panicked /\ TheLine.num = 302 /\ Len(TheLine.params) >= 2
        /\ contains(TheLine.params[2], "=")
        /\ contains(UserAtHost(TheLine.params[2]), "@")) =>
        /\ conn.usermask = Some(UserAtHost(TheLine.params[2]))
        /\ ~contains(Unwrap(conn.usermask), "=")
        /\ Unwrap(conn.usermask) = <<>> \/ Unwrap(conn.usermask)[1] \notin {"+", "-"}

----------------------------------------------------------------------------
(***************************************************************************)
(* Properties of nick changes.                                             *)
(***************************************************************************)

\* C24 (SpecNick): a read that dispatches one NICK whose prefix nick is the
\* current nick makes the new nick the current one, at its first index in
\* nicks when it is listed and appended at the end when it is not, pushes
\* NickChange(new nick) and then Msg, and leaves nick_accepted as it was,
\* before 001 as after it; a NICK with another prefix nick pushes Msg alone
\* and leaves nicks, current_nick_idx and nick_accepted as they were.
\* send_nick() leaves nicks and current_nick_idx as they were.
C24_NickChange ==
    /\ [][ (call'[1] = "read_ready" /\ ~panicked' /\ Len(Dispatched(evs')) = 1
                /\ TheLine'.cmd = "NICK") =>
                LET old_nick == Unwrap(TheLine'.pfx).nick
                    new_nick == TheLine'.arg
                IN  /\ conn'.nick_accepted = conn.nick_accepted
                    /\ IF old_nick = get_nick(conn)
                       THEN /\ get_nick(conn') = new_nick
                            /\ evs' = <<EvNickChange(new_nick), EvMsg(TheLine')>>
                            /\ IF contains(conn.nicks, new_nick)
                               THEN /\ conn'.nicks = conn.nicks
                                    /\ \A k \in 1..conn'.current_nick_idx :
                                           conn.nicks[k] # new_nick
                               ELSE /\ conn'.nicks = Append(conn.nicks, new_nick)
                                    /\ conn'.current_nick_idx = Len(conn.nicks)
                       ELSE /\ evs' = <<EvMsg(TheLine')>>
                            /\ conn'.nicks = conn.nicks
                            /\ conn'.current_nick_idx = conn.current_nick_idx ]_vars
    /\ [][ call'[1] = "send_nick" =>
                /\ conn'.current_nick_idx = conn.current_nick_idx
                /\ conn'.nicks = conn.nicks ]_vars

\* Before any 001, a NICK from a to c has just been read: c was appended and
\* is the current nick, and the nick is still not accepted.
C24_Witness ==
    /\ call = <<"read_ready", <<"ok">> >>
    /\ evs = <<EvNickChange(N_c), EvMsg(M_NICK(N_a, N_c))>>
    /\ conn.nicks = <<N_a, N_b, N_c>>
    /\ conn.current_nick_idx = 2
    /\ ~conn.nick_accepted

----------------------------------------------------------------------------
(***************************************************************************)
(* Properties of the tick counters.                                        *)
(***************************************************************************)

\* C25 as stated (SpecLink): no tick() aborts; a tick() in Disconnected
\* leaves the counter one higher, within 0..255, however many ticks came
\* before it without a reconnect(); the PingPong and WaitPong counters stay
\* below 60; and an idle run emits WantReconnect at most once.
C25_CountersNeverOverflow ==
    /\ []((call[1] = "tick") => ~panicked)
    /\ []((conn.status.kind \in {"PingPong", "WaitPong"}) => conn.status.ticks_passed < 60)
    /\ [](conn.status.ticks_passed \in 0..U8_MAX /\ idle.wants <= 1)
    /\ [][ (call'[1] = "tick" /\ conn.status.kind = "Disconnected") =>
                /\ conn'.status.kind = "Disconnected"
                /\ conn'.status.ticks_passed = conn.status.ticks_passed + 1 ]_vars

----------------------------------------------------------------------------
(***************************************************************************)
(* Properties of the introduction.                                         *)
(***************************************************************************)

\* The lines of a call that are a USER (written by introduce alone) or a
\* CAP REQ.
UserLines(out) == SelectSeq(out, LAMBDA l : l[1] = "USER")
CapReqLines(out) == SelectSeq(out, LAMBDA l : l[1] = "CAP REQ")

\* The connection has been introduced: on the plain path by new() or
\* reconnect(), on the SASL path by the read of a CAP LS reply.
Introduced == IF IsSome(conn.sasl_auth) THEN cap_ls_seen ELSE TRUE

\* C26 as stated (SpecCap): no call writes the introduction twice, and once a
\* connection has been introduced no call but reconnect() writes a USER or a
\* CAP REQ on it, whatever lines are read: not a CAP LS reply on the plain
\* path, nor a second CAP LS reply on the SASL path.
C26_IntroducedOnce ==
    /\ [](Len(UserLines(written)) <= 1)
    /\ [][ (Introduced /\ call'[1] # "reconnect") =>
                /\ UserLines(written') = <<>>
                /\ CapReqLines(written') = <<>> ]_vars

----------------------------------------------------------------------------
(***************************************************************************)
(* Properties of the budget of split_privmsg.                              *)
(***************************************************************************)

T_PRIVMSG == <<" ", "P", "R", "I", "V", "M", "S", "G", " ">>

\* The line the server relays for the slice s of a text sent to target.
RelayedLine(nick, id, target, s) ==
    <<":">> \o nick \o <<"!">> \o id.user \o <<"@">> \o id.host
        \o T_PRIVMSG \o target \o <<" ", ":">> \o s \o <<"\r", "\n">>

\* C27 as stated (SpecBudget): with extra_len = |target|, every slice the
\* iterator of split_privmsg yields makes a relayed line of at most 512
\* bytes under the identity nick!user@host of the client (user <= 9 bytes,
\* host <= 63 bytes), whether usermask is unset or was learned from a 396, a
\* 302 or a self-JOIN.
C27_RelayedLineFits ==
    (call[1] = "split_privmsg" /\ ~panicked) =>
        \A k \in 1..Len(yielded) :
            Len(RelayedLine(get_nick(conn), identity, call[2], yielded[k])) <= 512

====
